---- MODULE Spec2Model ----
(***************************************************************************)
(* State-machine model of the FHETimeCapsule contract                      *)
(* (packages/hardhat/contracts/FHETimeCapsule.sol).                        *)
(*                                                                         *)
(* Every external function is one action that covers both its successful   *)
(* execution and its reverts; a revert leaves the storage untouched and is *)
(* visible only in the receipt of the call (lastCall, events).             *)
(*                                                                         *)
(* Ciphertext handles are opaque values.  FHE.asEbool / FHE.asEaddress are  *)
(* trivial encryptions named by the value they are given,                  *)
(* FHE.fromExternal returns the handle the caller uploaded.  FHE.allow /   *)
(* FHE.allowThis add a (handle, account) pair to the access-control list.  *)
(***************************************************************************)
EXTENDS Integers, Sequences, FiniteSets, TLC

\* ---------------------------------------------------------------- bounds
MaxCapsules == 2      \* createTimeCapsule succeeds at most this many times
MaxTime     == 3      \* block.timestamp ranges over 1..MaxTime
MaxChunks   == 2      \* longest chunk / proof array a caller submits

\* ------------------------------------------------------------ identities
ZeroAddress == "0x0"
This        == "this"                 \* address(this), for FHE.allowThis
Users       == {"alice", "bob"}       \* externally owned accounts (msg.sender)
Addresses   == Users \cup {ZeroAddress}

CapsuleIds  == 0 .. MaxCapsules       \* ids a caller may pass; 0 is never
                                      \* assigned, ids >= nextCapsuleId not yet
Times       == 1 .. MaxTime          \* block timestamps and unlock times

\* --------------------------------------------------------------- handles
\* A handle is a triple of strings <<kind, a, b>>.  Trivial encryptions are
\* named by their plaintext; an uploaded ciphertext is named by the account
\* that encrypted it and its slot in the upload ("t" for the unlock time).
ZeroHandle      == <<"zero", "", "">>
AsEbool(b)      == <<"ebool", IF b THEN "true" ELSE "false", "">>
AsEaddress(a)   == <<"eaddress", a, "">>
External(u, k)  == <<"external", u, k>>

\* the externalEuint256[] a caller uploads with n chunks, and the
\* externalEuint64 of the unlock time
Upload(u, n)    == [i \in 1 .. n |-> External(u, ToString(i))]
UploadTime(u)   == External(u, "t")

\* ----------------------------------------------------------------- state
VARIABLES
    now,            \* block.timestamp of the block being built (l.75, l.124)
    nextCapsuleId,  \* uint256 public nextCapsuleId (l.43)
    timeCapsules,   \* mapping(uint256 => TimeCapsule) (l.37)
    userCapsules,   \* mapping(address => uint256[]) (l.40)
    acl,            \* FHE access-control list: set of <<handle, account>>,
                    \* written by FHE.allowThis / FHE.allow (l.82-95, l.283-288)
    granted,        \* capsuleId -> recipients _allowCapsuleTo was run for,
                    \* i.e. the (capsuleId, recipient) pairs of the
                    \* CapsuleEncryptionGranted log (l.278-301)
    eventCount,     \* capsuleId -> number of CapsuleCreated / CapsuleCancelled /
                    \* CapsuleUnlocked logs emitted for it (l.101, l.115, l.272)
    events,         \* logs emitted by that call, in order
    lastCall,       \* receipt of the latest call of the current block
    codec,          \* one run of the chunk codec: the message typed in, its
                    \* chunks, the decrypt results and what was decoded
                    \* (index.tsx l.189-280)
    hook,           \* React state of useFHETimeCapsule (index.tsx l.324-341)
    stringStorage   \* window.localStorage and the LocalStorageStringStorage
                    \* objects built on it (utils/storage, l.7-76)

vars == <<now, nextCapsuleId, timeCapsules, userCapsules, acl, granted,
          eventCount, events, lastCall, codec, hook, stringStorage>>

store == <<nextCapsuleId, timeCapsules, userCapsules, acl, granted, eventCount>>

\* the value every unwritten slot of the timeCapsules mapping reads as
EmptyCapsule ==
    [ encryptedMessage    |-> <<>>,
      encryptedUnlockTime |-> ZeroHandle,
      encryptedIsActive   |-> ZeroHandle,
      encryptedIsUnlocked |-> ZeroHandle,
      encryptedCreator    |-> ZeroHandle,
      creator             |-> ZeroAddress,
      unlockTime          |-> 0,
      isActive            |-> FALSE,
      isUnlocked          |-> FALSE ]

NoEventCount == [CapsuleCreated |-> 0, CapsuleCancelled |-> 0, CapsuleUnlocked |-> 0]

NoCall ==
    [ op |-> "none", sender |-> ZeroAddress, capsuleId |-> 0,
      recipient |-> ZeroAddress, ok |-> FALSE, reason |-> "" ]

Init ==
    /\ now = 1
    /\ nextCapsuleId = 1
    /\ timeCapsules = [i \in CapsuleIds |-> EmptyCapsule]
    /\ userCapsules = [u \in Addresses |-> <<>>]
    /\ acl = {}
    /\ granted = [i \in CapsuleIds |-> {}]
    /\ eventCount = [i \in CapsuleIds |-> NoEventCount]
    /\ events = <<>>
    /\ lastCall = NoCall
    /\ codec = "unused"
    /\ hook = "unmounted"
    /\ stringStorage = "unused"

\* ---------------------------------------------------------------- events
Event(name, id, account, t, handles) ==
    [ name |-> name, capsuleId |-> id, account |-> account,
      unlockTime |-> t, handles |-> handles ]

CapsuleCreated(id, creator, t)  == Event("CapsuleCreated", id, creator, t, <<>>)
CapsuleUnlocked(id, creator)    == Event("CapsuleUnlocked", id, creator, 0, <<>>)
CapsuleCancelled(id, creator)   == Event("CapsuleCancelled", id, creator, 0, <<>>)

\* the four metadata handles followed by the message handles
CapsuleEncryptionGranted(id, recipient, c) ==
    Event("CapsuleEncryptionGranted", id, recipient, 0,
          << c.encryptedCreator, c.encryptedUnlockTime,
             c.encryptedIsActive, c.encryptedIsUnlocked >> \o c.encryptedMessage)

\* ----------------------------------------------------------------- views
Range(s) == {s[i] : i \in 1 .. Len(s)}

getTimeCapsule(id) ==
    [ creator       |-> timeCapsules[id].creator,
      unlockTime    |-> timeCapsules[id].unlockTime,
      isActive      |-> timeCapsules[id].isActive,
      isUnlocked    |-> timeCapsules[id].isUnlocked,
      messageLength |-> Len(timeCapsules[id].encryptedMessage) ]

\* variant: the counter itself is reported
getTotalCapsulesRaw == nextCapsuleId

getTotalCapsules == nextCapsuleId - 1

\* variant: the loop forgets the isActive test
getExpiredCapsulesCountNoActive ==
    Cardinality({ i \in 1 .. (nextCapsuleId - 1) :
                    /\ ~timeCapsules[i].isUnlocked
                    /\ now >= timeCapsules[i].unlockTime })

getExpiredCapsulesCount ==
    Cardinality({ i \in 1 .. (nextCapsuleId - 1) :
                    /\ timeCapsules[i].isActive
                    /\ ~timeCapsules[i].isUnlocked
                    /\ now >= timeCapsules[i].unlockTime })

getUserCapsules(u) == userCapsules[u]

\* first loop of getActiveCapsulesByUser: how many of the ids are isActive
ActiveCount(ids) ==
    Cardinality({ i \in 1 .. Len(ids) : timeCapsules[ids[i]].isActive })

\* second loop: from position i on, copy the isActive ids into out, index
\* entries of which are filled, until the ids or the activeCount slots run out
RECURSIVE FillActive(_, _, _, _)
FillActive(ids, i, out, index) ==
    IF ~(i <= Len(ids) /\ index < Len(out)) THEN out
    ELSE IF timeCapsules[ids[i]].isActive
         THEN FillActive(ids, i + 1, [out EXCEPT ![index + 1] = ids[i]], index + 1)
         ELSE FillActive(ids, i + 1, out, index)

\* variant: the view filters on isUnlocked instead of isActive
getActiveCapsulesNotUnlocked(user) ==
    SelectSeq(userCapsules[user], LAMBDA id : ~timeCapsules[id].isUnlocked)

getActiveCapsulesByUser(user) ==
    LET userCapsuleIds == userCapsules[user]
        activeCapsules == [k \in 1 .. ActiveCount(userCapsuleIds) |-> 0]
    IN  FillActive(userCapsuleIds, 1, activeCapsules, 0)

\* ------------------------------------------------------------- receipts
Receipt(op, sender, id, recipient, ok, reason) ==
    [ op |-> op, sender |-> sender, capsuleId |-> id, recipient |-> recipient,
      ok |-> ok, reason |-> reason ]

\* variant: a refused create has already consumed its id
RevertAfterIdTaken(receipt) ==
    /\ lastCall' = receipt
    /\ events' = <<>>
    /\ nextCapsuleId' = IF receipt.op = "create" /\ nextCapsuleId <= MaxCapsules
                        THEN nextCapsuleId + 1 ELSE nextCapsuleId
    /\ UNCHANGED <<now, timeCapsules, userCapsules, acl, granted, eventCount>>

Revert(receipt) ==
    /\ lastCall' = receipt
    /\ events' = <<>>
    /\ UNCHANGED <<now, store>>

\* handles of a capsule, as _allowCapsuleTo walks them
CapsuleHandles(c) ==
    { c.encryptedCreator, c.encryptedUnlockTime,
      c.encryptedIsActive, c.encryptedIsUnlocked } \cup Range(c.encryptedMessage)

\* ------------------------------------------------------ createTimeCapsule
\* variant: an unlock time equal to block.timestamp is accepted
CreateGuardNotPast(chunks, nProofs, unlockTime) ==
    IF ~(Len(chunks) > 0) THEN "Encrypted message required"
    ELSE IF ~(Len(chunks) = nProofs) THEN "Message proof mismatch"
    ELSE IF ~(unlockTime >= now) THEN "Unlock time must be in the future"
    ELSE ""

CreateGuard(chunks, nProofs, unlockTime) ==
    IF ~(Len(chunks) > 0) THEN "Encrypted message required"
    ELSE IF ~(Len(chunks) = nProofs) THEN "Message proof mismatch"
    ELSE IF ~(unlockTime > now) THEN "Unlock time must be in the future"
    ELSE ""

\* variant: the capsule starts inactive until its owner activates it
NewCapsuleInactive(sender, chunks, unlockHandle, unlockTime) ==
    [ encryptedMessage    |-> [i \in 1 .. Len(chunks) |-> chunks[i]],
      encryptedUnlockTime |-> unlockHandle,
      encryptedIsActive   |-> AsEbool(FALSE),
      encryptedIsUnlocked |-> AsEbool(FALSE),
      encryptedCreator    |-> AsEaddress(sender),
      creator             |-> sender,
      unlockTime          |-> unlockTime,
      isActive            |-> FALSE,
      isUnlocked          |-> FALSE ]

NewCapsule(sender, chunks, unlockHandle, unlockTime) ==
    [ encryptedMessage    |-> [i \in 1 .. Len(chunks) |-> chunks[i]],
      encryptedUnlockTime |-> unlockHandle,
      encryptedIsActive   |-> AsEbool(TRUE),
      encryptedIsUnlocked |-> AsEbool(FALSE),
      encryptedCreator    |-> AsEaddress(sender),
      creator             |-> sender,
      unlockTime          |-> unlockTime,
      isActive            |-> TRUE,
      isUnlocked          |-> FALSE ]

\* variant: ids numbered per creator instead of from the global counter
AllocIdPerUser(sender) == Len(userCapsules[sender]) + 1

\* capsuleId = nextCapsuleId++ : the id handed out
AllocId(sender) == nextCapsuleId

createTimeCapsule(sender, chunks, nProofs, unlockHandle, unlockTime) ==
    LET reason == CreateGuard(chunks, nProofs, unlockTime)
        id     == AllocId(sender)
        c      == NewCapsule(sender, chunks, unlockHandle, unlockTime)
        rcpt(ok, why) == Receipt("create", sender, IF ok THEN id ELSE 0, ZeroAddress, ok, why)
    IN  IF reason # "" THEN Revert(rcpt(FALSE, reason))
        ELSE /\ nextCapsuleId <= MaxCapsules
             /\ nextCapsuleId' = nextCapsuleId + 1
             /\ timeCapsules' = [timeCapsules EXCEPT ![id] = c]
             /\ acl' = acl \cup {<<h, This>> : h \in CapsuleHandles(c)}
             /\ userCapsules' = [userCapsules EXCEPT ![sender] = Append(@, id)]
             /\ eventCount' = [eventCount EXCEPT ![id].CapsuleCreated = @ + 1]
             /\ events' = << CapsuleCreated(id, sender, unlockTime) >>
             /\ lastCall' = rcpt(TRUE, "")
             /\ UNCHANGED <<now, granted>>

\* ------------------------------------------------------ cancelTimeCapsule
\* variant: the isActive requirement is missing
CancelGuardNoActiveCheck(sender, id) ==
    IF ~(timeCapsules[id].creator = sender) THEN "Only creator can cancel"
    ELSE IF timeCapsules[id].isUnlocked THEN "Capsule is already unlocked"
    ELSE ""

\* variant: the creator requirement is missing
CancelGuardAnyone(sender, id) ==
    IF ~timeCapsules[id].isActive THEN "Capsule is not active"
    ELSE IF timeCapsules[id].isUnlocked THEN "Capsule is already unlocked"
    ELSE ""

\* variant: a capsule can no longer be cancelled once its unlock time is there
CancelGuardBeforeUnlock(sender, id) ==
    IF ~(timeCapsules[id].creator = sender) THEN "Only creator can cancel"
    ELSE IF ~timeCapsules[id].isActive THEN "Capsule is not active"
    ELSE IF timeCapsules[id].isUnlocked THEN "Capsule is already unlocked"
    ELSE IF now >= timeCapsules[id].unlockTime THEN "Unlock time has arrived"
    ELSE ""

CancelGuard(sender, id) ==
    IF ~(timeCapsules[id].creator = sender) THEN "Only creator can cancel"
    ELSE IF ~timeCapsules[id].isActive THEN "Capsule is not active"
    ELSE IF timeCapsules[id].isUnlocked THEN "Capsule is already unlocked"
    ELSE ""

\* variant: cancelling also wipes the stored message
CancelledCapsuleWipe(c) ==
    [c EXCEPT !.isActive = FALSE, !.encryptedIsActive = AsEbool(FALSE),
              !.encryptedMessage = <<>>]

\* variant: cancelling forgets the encrypted flag
CancelledCapsuleMirrorKept(c) == [c EXCEPT !.isActive = FALSE]

\* the capsule record after the two writes of cancelTimeCapsule
CancelledCapsule(c) ==
    [c EXCEPT !.isActive = FALSE, !.encryptedIsActive = AsEbool(FALSE)]

cancelTimeCapsule(sender, id) ==
    LET reason == CancelGuard(sender, id)
        rcpt(ok, why) == Receipt("cancel", sender, id, ZeroAddress, ok, why)
    IN  IF reason # "" THEN Revert(rcpt(FALSE, reason))
        ELSE /\ timeCapsules' = [timeCapsules EXCEPT ![id] = CancelledCapsule(@)]
             /\ eventCount' = [eventCount EXCEPT ![id].CapsuleCancelled = @ + 1]
             /\ events' = << CapsuleCancelled(id, sender) >>
             /\ lastCall' = rcpt(TRUE, "")
             /\ UNCHANGED <<now, nextCapsuleId, userCapsules, acl, granted>>

\* variant: the grant replaces the capsule's recipients instead of adding
GrantedOnly(id, rs) == [granted EXCEPT ![id] = rs]

\* the capsule's recipients after _allowCapsuleTo ran for each of rs:
\* FHE.allow only ever adds a (handle, account) permission
GrantedWith(id, rs) == [granted EXCEPT ![id] = @ \cup rs]

\* variant: the message chunks are left out of the grant
AllowPairsMetadataOnly(c, recipient) ==
    { <<h, recipient>> : h \in { c.encryptedCreator, c.encryptedUnlockTime,
                                 c.encryptedIsActive, c.encryptedIsUnlocked } }

\* -------------------------------------------------------- _allowCapsuleTo
\* effect of one _allowCapsuleTo(id, recipient) on a capsule record c:
\* the pairs added to the ACL and the log it emits
AllowPairs(c, recipient) == {<<h, recipient>> : h \in CapsuleHandles(c)}

\* -------------------------------------------------------- openTimeCapsule
\* variant: the unlock instant itself still counts as locked
OpenGuardStrictlyAfter(id) ==
    IF ~timeCapsules[id].isActive THEN "Capsule is not active"
    ELSE IF timeCapsules[id].isUnlocked THEN "Capsule is already unlocked"
    ELSE IF ~(now > timeCapsules[id].unlockTime) THEN "Unlock time has not arrived"
    ELSE ""

\* variant: the isActive requirement is missing
OpenGuardNoActiveCheck(id) ==
    IF timeCapsules[id].isUnlocked THEN "Capsule is already unlocked"
    ELSE IF ~(now >= timeCapsules[id].unlockTime) THEN "Unlock time has not arrived"
    ELSE ""

OpenGuard(id) ==
    IF ~timeCapsules[id].isActive THEN "Capsule is not active"
    ELSE IF timeCapsules[id].isUnlocked THEN "Capsule is already unlocked"
    ELSE IF ~(now >= timeCapsules[id].unlockTime) THEN "Unlock time has not arrived"
    ELSE ""

\* variant: _openCapsule forgets to clear isActive
OpenedCapsuleStillActive(c) ==
    [c EXCEPT !.isUnlocked = TRUE,
              !.encryptedIsActive = AsEbool(FALSE),
              !.encryptedIsUnlocked = AsEbool(TRUE)]

\* the capsule record after the four flag writes of _openCapsule
OpenedCapsule(c) ==
    [c EXCEPT !.isActive = FALSE, !.isUnlocked = TRUE,
              !.encryptedIsActive = AsEbool(FALSE),
              !.encryptedIsUnlocked = AsEbool(TRUE)]

\* variant: only the account that triggered the unlock is granted
OpenRecipientsRequestorOnly(c, requestor) == <<requestor>>

\* variant: the requestor is granted before the creator
OpenRecipientsRequestorFirst(c, requestor) ==
    IF requestor # c.creator THEN <<requestor, c.creator>> ELSE <<c.creator>>

\* recipients _openCapsule runs _allowCapsuleTo for, in order
OpenRecipients(c, requestor) ==
    IF requestor # c.creator THEN <<c.creator, requestor>> ELSE <<c.creator>>

openTimeCapsule(sender, id) ==
    LET reason == OpenGuard(id)
        c      == OpenedCapsule(timeCapsules[id])
        rs     == OpenRecipients(c, sender)
        rcpt(ok, why) == Receipt("open", sender, id, ZeroAddress, ok, why)
    IN  IF reason # "" THEN Revert(rcpt(FALSE, reason))
        ELSE /\ timeCapsules' = [timeCapsules EXCEPT ![id] = c]
             /\ acl' = acl \cup UNION {AllowPairs(c, r) : r \in Range(rs)}
             /\ granted' = GrantedWith(id, Range(rs))
             /\ eventCount' = [eventCount EXCEPT ![id].CapsuleUnlocked = @ + 1]
             /\ events' = [i \in 1 .. Len(rs) |-> CapsuleEncryptionGranted(id, rs[i], c)]
                            \o << CapsuleUnlocked(id, c.creator) >>
             /\ lastCall' = rcpt(TRUE, "")
             /\ UNCHANGED <<now, nextCapsuleId, userCapsules>>

\* -------------------------------------------------- grantDecryptionAccess
\* variant: sharing is not gated on the capsule being unlocked
GrantGuardAnyState(sender, id, recipient) ==
    IF ~(recipient # ZeroAddress) THEN "Invalid recipient"
    ELSE IF ~(timeCapsules[id].creator = sender) THEN "Only creator can share"
    ELSE ""

\* variant: the creator requirement is missing
GrantGuardAnyone(sender, id, recipient) ==
    IF ~(recipient # ZeroAddress) THEN "Invalid recipient"
    ELSE IF ~timeCapsules[id].isUnlocked THEN "Capsule not unlocked"
    ELSE ""

\* variant: a recipient that already holds the grant is refused
GrantGuardNoDuplicate(sender, id, recipient) ==
    IF ~(recipient # ZeroAddress) THEN "Invalid recipient"
    ELSE IF ~timeCapsules[id].isUnlocked THEN "Capsule not unlocked"
    ELSE IF ~(timeCapsules[id].creator = sender) THEN "Only creator can share"
    ELSE IF recipient \in granted[id] THEN "Already granted"
    ELSE ""

GrantGuard(sender, id, recipient) ==
    IF ~(recipient # ZeroAddress) THEN "Invalid recipient"
    ELSE IF ~timeCapsules[id].isUnlocked THEN "Capsule not unlocked"
    ELSE IF ~(timeCapsules[id].creator = sender) THEN "Only creator can share"
    ELSE ""

grantDecryptionAccess(sender, id, recipient) ==
    LET reason == GrantGuard(sender, id, recipient)
        c      == timeCapsules[id]
        rcpt(ok, why) == Receipt("grant", sender, id, recipient, ok, why)
    IN  IF reason # "" THEN Revert(rcpt(FALSE, reason))
        ELSE /\ acl' = acl \cup AllowPairs(c, recipient)
             /\ granted' = GrantedWith(id, {recipient})
             /\ events' = << CapsuleEncryptionGranted(id, recipient, c) >>
             /\ lastCall' = rcpt(TRUE, "")
             /\ UNCHANGED <<now, nextCapsuleId, timeCapsules, userCapsules, eventCount>>

\* ------------------------------------------------------------------ time
\* a new block is mined with a later timestamp
Tick ==
    /\ now < MaxTime
    /\ now' = now + 1
    /\ lastCall' = NoCall
    /\ events' = <<>>
    /\ UNCHANGED store

\* ------------------------------------------------------------ transitions
\* the contract on its own: no client is attached
Create ==
    /\ \E sender \in Users, nChunks \in 0 .. MaxChunks, nProofs \in 0 .. MaxChunks,
          unlockTime \in Times :
           createTimeCapsule(sender, Upload(sender, nChunks), nProofs,
                             UploadTime(sender), unlockTime)
    /\ UNCHANGED <<codec, hook, stringStorage>>

Cancel ==
    /\ \E sender \in Users, id \in CapsuleIds : cancelTimeCapsule(sender, id)
    /\ UNCHANGED <<codec, hook, stringStorage>>

Open ==
    /\ \E sender \in Users, id \in CapsuleIds : openTimeCapsule(sender, id)
    /\ UNCHANGED <<codec, hook, stringStorage>>

Grant ==
    /\ \E sender \in Users, id \in CapsuleIds, recipient \in Addresses :
           grantDecryptionAccess(sender, id, recipient)
    /\ UNCHANGED <<codec, hook, stringStorage>>

Advance == Tick /\ UNCHANGED <<codec, hook, stringStorage>>

Next == Create \/ Cancel \/ Open \/ Grant \/ Advance

Spec == Init /\ [][Next]_vars

\* ======================================================================
\* Chunk codec of the client
\* (packages/nextjs/components/helper/RainbowKitCustomConnectButton/index.tsx)
\* ======================================================================
\* A message is a JavaScript string, here a sequence of Unicode code points;
\* bytes are 0..255; a bigint is its base-256 digits without leading zeros.
BYTES_PER_CHUNK == 32

MaxPrefix == 2       \* freely chosen characters at the start of a message
MaxFill   == 58      \* letters 'a' that follow them

\* 'a', e-acute, U+FEFF (byte order mark), U+FFFD (replacement character)
\* and U+D800 (a surrogate without its pair)
Alphabet == {97, 233, 65279, 65533, 55296}

Fill(n) == [i \in 1 .. n |-> 97]

Prefixes == UNION { [1 .. n -> Alphabet] : n \in 0 .. MaxPrefix }

Messages == { p \o Fill(n) : p \in Prefixes, n \in 0 .. MaxFill }

RECURSIVE Concat(_)
Concat(seqs) == IF seqs = <<>> THEN <<>> ELSE Head(seqs) \o Concat(Tail(seqs))

Zeros(n) == [i \in 1 .. n |-> 0]

\* ---- TextEncoder / TextDecoder (utf-8), l.121-122
\* a string is first made well formed: a lone surrogate becomes U+FFFD
Utf8(cp) ==
    LET c == IF cp >= 55296 /\ cp <= 57343 THEN 65533 ELSE cp
    IN  IF c < 128 THEN << c >>
        ELSE IF c < 2048 THEN << 192 + (c \div 64), 128 + (c % 64) >>
        ELSE << 224 + (c \div 4096), 128 + ((c \div 64) % 64), 128 + (c % 64) >>

textEncoderEncode(message) == Concat([i \in 1 .. Len(message) |-> Utf8(message[i])])

IsContinuation(b) == b >= 128 /\ b <= 191

\* bytes a sequence starting with lead byte b1 needs; 0 for an invalid lead
Utf8Need(b1) ==
    IF b1 < 128 THEN 1
    ELSE IF b1 >= 194 /\ b1 <= 223 THEN 2
    ELSE IF b1 >= 224 /\ b1 <= 239 THEN 3
    ELSE IF b1 >= 240 /\ b1 <= 244 THEN 4
    ELSE 0

\* the second byte a lead byte admits (no overlong forms, no surrogates,
\* nothing above U+10FFFF)
Utf8SecondOk(b1, b2) ==
    IF b1 = 224 THEN b2 >= 160 /\ b2 <= 191
    ELSE IF b1 = 237 THEN b2 >= 128 /\ b2 <= 159
    ELSE IF b1 = 240 THEN b2 >= 144 /\ b2 <= 191
    ELSE IF b1 = 244 THEN b2 >= 128 /\ b2 <= 143
    ELSE IsContinuation(b2)

\* how many bytes of b, from its first, form a valid start of one sequence
Utf8ValidStart(b) ==
    LET need == Utf8Need(b[1])
    IN  IF need <= 1 THEN 1
        ELSE IF Len(b) < 2 \/ ~Utf8SecondOk(b[1], b[2]) THEN 1
        ELSE IF need = 2 THEN 2
        ELSE IF Len(b) < 3 \/ ~IsContinuation(b[3]) THEN 2
        ELSE IF need = 3 THEN 3
        ELSE IF Len(b) < 4 \/ ~IsContinuation(b[4]) THEN 3
        ELSE 4

Utf8CodePoint(b, n) ==
    IF n = 1 THEN b[1]
    ELSE IF n = 2 THEN (b[1] - 192) * 64 + (b[2] - 128)
    ELSE IF n = 3 THEN (b[1] - 224) * 4096 + (b[2] - 128) * 64 + (b[3] - 128)
    ELSE (b[1] - 240) * 262144 + (b[2] - 128) * 4096 + (b[3] - 128) * 64 + (b[4] - 128)

\* non-fatal decoding: each ill-formed stretch becomes one U+FFFD
RECURSIVE Utf8Decode(_)
Utf8Decode(b) ==
    IF b = <<>> THEN <<>>
    ELSE LET need == Utf8Need(b[1])
             got  == Utf8ValidStart(b)
             rest == SubSeq(b, got + 1, Len(b))
         IN  IF need >= 1 /\ got = need
             THEN << Utf8CodePoint(b, need) >> \o Utf8Decode(rest)
             ELSE << 65533 >> \o Utf8Decode(rest)

\* new TextDecoder() does not keep a leading byte order mark
textDecoderDecode(bytes) ==
    IF Len(bytes) >= 3 /\ SubSeq(bytes, 1, 3) = << 239, 187, 191 >>
    THEN Utf8Decode(SubSeq(bytes, 4, Len(bytes)))
    ELSE Utf8Decode(bytes)

\* ---- bigint and byte arrays
RECURSIVE StripZeros(_)
StripZeros(bytes) ==
    IF bytes # <<>> /\ Head(bytes) = 0 THEN StripZeros(Tail(bytes)) ELSE bytes

BigInt(digits) == [type |-> "bigint", digits |-> digits, valid |-> TRUE]
HexString(bytes, valid) == [type |-> "string", digits |-> bytes, valid |-> valid]
Bool(b) == [type |-> "boolean", digits |-> IF b THEN << 1 >> ELSE <<>>, valid |-> TRUE]

bytesToBigInt(bytes) == BigInt(StripZeros(bytes))

\* DataView.setUint32(0, n, false)
setUint32(n) ==
    << (n \div 16777216) % 256, (n \div 65536) % 256, (n \div 256) % 256, n % 256 >>

\* DataView.getUint32(0, false) > available, for available below 2^31
DeclaredExceeds(merged, available) ==
    \/ merged[1] >= 128
    \/ merged[1] * 16777216 + merged[2] * 65536 + merged[3] * 256 + merged[4] > available

getUint32(merged) ==
    merged[1] * 16777216 + merged[2] * 65536 + merged[3] * 256 + merged[4]

Ceil(a, b) == (a + b - 1) \div b

Min(a, b) == IF a <= b THEN a ELSE b

\* variant: the final chunk is dropped when it is only partly filled
encodeMessageToChunksFloor(message) ==
    LET messageBytes == textEncoderEncode(message)
        prefixed     == setUint32(Len(messageBytes)) \o messageBytes
        chunkCount   == Len(prefixed) \div BYTES_PER_CHUNK
    IN  [ i \in 1 .. chunkCount |->
            bytesToBigInt(SubSeq(prefixed, (i - 1) * BYTES_PER_CHUNK + 1,
                                 i * BYTES_PER_CHUNK)) ]

encodeMessageToChunks(message) ==
    LET messageBytes == textEncoderEncode(message)
        prefixed     == setUint32(Len(messageBytes)) \o messageBytes
        chunkCount   == Ceil(Len(prefixed), BYTES_PER_CHUNK)
        chunk(i)     ==
            LET start == (i - 1) * BYTES_PER_CHUNK
                end   == Min(start + BYTES_PER_CHUNK, Len(prefixed))
                part  == IF start < Len(prefixed)
                         THEN SubSeq(prefixed, start + 1, end) ELSE <<>>
            IN  part \o Zeros(BYTES_PER_CHUNK - Len(part))
    IN  [ i \in 1 .. chunkCount |-> bytesToBigInt(chunk(i)) ]

\* the low BYTES_PER_CHUNK bytes, zero-filled on the left
Low32(bytes) ==
    LET cut == IF Len(bytes) > BYTES_PER_CHUNK
               THEN SubSeq(bytes, Len(bytes) - BYTES_PER_CHUNK + 1, Len(bytes))
               ELSE bytes
    IN  Zeros(BYTES_PER_CHUNK - Len(cut)) \o cut

Bytes(b)    == [kind |-> "bytes", bytes |-> b]
NoBytes     == [kind |-> "undefined", bytes |-> <<>>]
BytesThrown == [kind |-> "throws", bytes |-> <<>>]

\* variant: a value that is not BYTES_PER_CHUNK bytes long is refused
valueToBytes32Exact(value) ==
    IF value.type \in {"boolean", "bigint"} THEN Bytes(Low32(value.digits))
    ELSE IF value.type = "string"
         THEN IF ~value.valid THEN BytesThrown
              ELSE IF Len(value.digits) = BYTES_PER_CHUNK THEN Bytes(value.digits)
              ELSE NoBytes
    ELSE NoBytes

valueToBytes32(value) ==
    IF value.type = "boolean" THEN Bytes(Low32(value.digits))
    ELSE IF value.type = "bigint" THEN Bytes(Low32(value.digits))
    ELSE IF value.type = "string"
         THEN IF ~value.valid THEN BytesThrown       \* ethers.getBytes throws
              ELSE Bytes(Low32(value.digits))
    ELSE NoBytes

\* ---- handles as the client sees them: hex strings that may differ in case
Hex(name, upper) == [name |-> name, upper |-> upper]
toLowerCase(h)   == [h EXCEPT !.upper = FALSE]

\* normalizedDecryptResults: Object.entries in order into a Map keyed by the
\* lower-cased handle; no Map for an empty result
\* variant: the key is stored as it came
ResultKeyAsIs(key) == key

\* the key a result is stored under (l.991)
ResultKey(key) == toLowerCase(key)

RECURSIVE MapOf(_, _)
MapOf(entries, map) ==
    IF entries = <<>> THEN map
    ELSE LET key   == ResultKey(entries[1][1])
             value == entries[1][2]
         IN  MapOf(Tail(entries),
                   [k \in DOMAIN map \cup {key} |-> IF k = key THEN value ELSE map[k]])

EmptyMap == [k \in {} |-> 0]

normalizedDecryptResults(entries) == MapOf(entries, EmptyMap)

Decoded(text)  == [kind |-> "string", text |-> text]
Undecoded      == [kind |-> "undefined", text |-> <<>>]
DecodeThrown   == [kind |-> "throws", text |-> <<>>]

\* the loop of decodeMessageFromResults (l.258-268): the chunks gathered
\* from position i on, or the reason it stopped
RECURSIVE GatherChunks(_, _, _, _)
GatherChunks(handles, results, i, chunks) ==
    IF i > Len(handles) THEN [kind |-> "bytes", chunks |-> chunks]
    ELSE IF toLowerCase(handles[i]) \notin DOMAIN results
         THEN [kind |-> "undefined", chunks |-> <<>>]
    ELSE LET chunk == valueToBytes32(results[toLowerCase(handles[i])])
         IN  IF chunk.kind # "bytes" THEN [kind |-> chunk.kind, chunks |-> <<>>]
             ELSE GatherChunks(handles, results, i + 1, Append(chunks, chunk.bytes))

decodeMessageFromResults(handles, results) ==
    IF Len(handles) = 0 THEN Undecoded
    ELSE LET gathered == GatherChunks(handles, results, 1, <<>>)
         IN  IF gathered.kind = "throws" THEN DecodeThrown
             ELSE IF gathered.kind = "undefined" THEN Undecoded
             ELSE LET merged    == Concat(gathered.chunks)
                      available == Len(merged) - 4
                  IN  IF Len(merged) < 4 THEN Undecoded
                      ELSE IF DeclaredExceeds(merged, available) THEN Undecoded
                      ELSE Decoded(textDecoderDecode(
                               SubSeq(merged, 5, 4 + getUint32(merged))))

\* ---- one run of the codec: type a message, encode it, receive the
\* decrypt results of its chunks, decode them
contract == <<now, nextCapsuleId, timeCapsules, userCapsules, acl, granted,
              eventCount, events, lastCall>>

\* the chunk handles of a record as getEncryptedMessage returns them
RecordHandles(n) == [i \in 1 .. n |-> Hex(i, i % 2 = 1)]

Orders(n) == { p \in [1 .. n -> 1 .. n] : \A i, j \in 1 .. n : p[i] = p[j] => i = j }

NotDecoded == [kind |-> "none", text |-> <<>>]

CodecInit ==
    /\ now = 1
    /\ nextCapsuleId = 1
    /\ timeCapsules = [i \in CapsuleIds |-> EmptyCapsule]
    /\ userCapsules = [u \in Addresses |-> <<>>]
    /\ acl = {}
    /\ granted = [i \in CapsuleIds |-> {}]
    /\ eventCount = [i \in CapsuleIds |-> NoEventCount]
    /\ events = <<>>
    /\ lastCall = NoCall
    /\ hook = "unmounted"
    /\ stringStorage = "unused"
    /\ \E m \in Messages :
          codec = [ pc |-> "typed", message |-> m, chunks |-> <<>>,
                    handles |-> <<>>, delivery |-> "none", entries |-> <<>>,
                    decoded |-> NotDecoded, accepted |-> FALSE ]

\* executeWrite "create", l.840: the message becomes chunks, one handle each
EncodeMessage ==
    /\ codec.pc = "typed"
    /\ codec' = [codec EXCEPT !.pc = "encoded",
                              !.chunks = encodeMessageToChunks(codec.message),
                              !.handles = RecordHandles(Len(encodeMessageToChunks(codec.message)))]
    /\ UNCHANGED <<contract, hook, stringStorage>>

Deliver(delivery, handles, entries) ==
    /\ codec.pc = "encoded"
    /\ codec' = [codec EXCEPT !.pc = "delivered", !.delivery = delivery,
                              !.handles = handles, !.entries = entries]
    /\ UNCHANGED <<contract, hook, stringStorage>>

\* a handle of some other record and the value decrypted for it
ForeignEntry(upper) == << Hex(0, upper), BigInt(<< 255 >>) >>

\* the decryption returns every chunk as a bigint, in any order, the keys
\* in either case, alone or after the result of another record's handle
DecryptScalars ==
    \E p \in Orders(Len(codec.chunks)), upper \in BOOLEAN, extra \in BOOLEAN :
        Deliver(IF \A i \in DOMAIN p : p[i] = i THEN "inOrder" ELSE "reordered",
                codec.handles,
                (IF extra THEN << ForeignEntry(upper) >> ELSE <<>>)
                \o [ j \in 1 .. Len(codec.chunks) |->
                       << Hex(p[j], upper), codec.chunks[p[j]] >> ])

\* the decryption returns the chunks as hex strings: with their leading zero
\* bytes cut, of full length, one byte too long, or not whole bytes
DecryptHex ==
    \E form \in {"hexShort", "hexExact", "hexLong", "hexOdd"} :
        Deliver(form, codec.handles,
                [ j \in 1 .. Len(codec.chunks) |->
                    << toLowerCase(codec.handles[j]),
                       IF form = "hexShort"
                       THEN HexString(codec.chunks[j].digits, TRUE)
                       ELSE IF form = "hexExact"
                       THEN HexString(Low32(codec.chunks[j].digits), TRUE)
                       ELSE IF form = "hexLong"
                       THEN HexString(<< 1 >> \o Low32(codec.chunks[j].digits), TRUE)
                       ELSE HexString(codec.chunks[j].digits, FALSE) >> ])

\* the result of the last chunk is missing; its value came back under
\* another record's handle
DecryptMissing ==
    Deliver("missing", codec.handles,
            [ j \in 1 .. Len(codec.chunks) - 1 |->
                << toLowerCase(codec.handles[j]), codec.chunks[j] >> ]
            \o << << Hex(0, FALSE), codec.chunks[Len(codec.chunks)] >> >>)

\* the record holds fewer chunks than the message was encoded into
DecryptFewerBlocks ==
    /\ Len(codec.chunks) >= 2
    /\ Deliver("fewerBlocks", SubSeq(codec.handles, 1, Len(codec.chunks) - 1),
               [ j \in 1 .. Len(codec.chunks) - 1 |->
                   << toLowerCase(codec.handles[j]), codec.chunks[j] >> ])

\* the decrypt-results effect, l.996-1023: no Map for an empty result, else
\* decode and take the result as the plaintext when it is truthy
DecodeResults ==
    /\ codec.pc = "delivered"
    /\ codec' =
         IF codec.entries = <<>>
         THEN [codec EXCEPT !.pc = "decoded"]
         ELSE LET decoded == decodeMessageFromResults(
                                codec.handles, normalizedDecryptResults(codec.entries))
              IN  [codec EXCEPT !.pc = "decoded", !.decoded = decoded,
                         !.accepted = decoded.kind = "string" /\ decoded.text # <<>>]
    /\ UNCHANGED <<contract, hook, stringStorage>>

CodecNext ==
    \/ EncodeMessage
    \/ DecryptScalars
    \/ DecryptHex
    \/ DecryptMissing
    \/ DecryptFewerBlocks
    \/ DecodeResults

CodecSpec == CodecInit /\ [][CodecNext]_vars

\* ======================================================================
\* The client: useFHETimeCapsule (RainbowKitCustomConnectButton/index.tsx)
\* and the buttons of TimeCapsuleApp, attached to the contract above.
\*
\* hook is the state of one mounted hook: its useState values, the ref
\* autoDecryptRequestedRef, window.localStorage, the promises it awaits
\* (refreshes under way, the decrypt batch under way) and whether a render
\* with its effects is still due.  statusMessage and isSubmitting take no
\* part in any decision between two steps and are left out.
\* ======================================================================
MaxInFlight == 2     \* refreshCapsules calls that may be awaiting their reads

Account == "alice"   \* the connected wallet (account, resolvedAccount)

\* what each user writes into their capsules
MessageOf(u) == IF u = Account THEN << 97 >> ELSE << 233 >>

\* the chunk handles a creator uploads for the capsule about to be created,
\* one per chunk of the encoded message, and the plaintext behind a handle
ClientUpload(u) ==
    [i \in 1 .. Len(encodeMessageToChunks(MessageOf(u))) |->
        External(u, ToString(nextCapsuleId) \o "/" \o ToString(i))]

\* ---- values a CapsuleDetails field or a storage slot may hold
Undefined     == [kind |-> "undefined", text |-> <<>>]
Truthy(value) == value.kind = "string" /\ value.text # <<>>

\* ---- computeStatus (l.444-449)
\* variant: the expiry is looked at before the cancellation
computeStatusExpiredFirst(capsule) ==
    IF capsule.isUnlocked THEN "unlocked"
    ELSE IF capsule.isExpired THEN "expired"
    ELSE IF ~capsule.isActive THEN "cancelled"
    ELSE "active"

computeStatus(capsule) ==
    IF capsule.isUnlocked THEN "unlocked"
    ELSE IF ~capsule.isActive THEN "cancelled"
    ELSE IF capsule.isExpired THEN "expired"
    ELSE "active"

\* ---- normalizeCapsule (l.464-515): rawCapsule is what getTimeCapsule
\* returned, encryptedMessage what getEncryptedMessage returned, dateNow is
\* Math.floor(Date.now() / 1000) when the reads came back
normalizeCapsule(capsuleId, rawCapsule, encryptedMessage, viewerAddress, dateNow) ==
    LET capsule ==
          [ id                   |-> capsuleId,
            creator              |-> rawCapsule.creator,
            unlockTime           |-> rawCapsule.unlockTime,
            isActive             |-> rawCapsule.isActive,
            isUnlocked           |-> rawCapsule.isUnlocked,
            isExpired            |-> dateNow >= rawCapsule.unlockTime,
            messageChunkCount    |-> rawCapsule.messageLength,
            decryptedMessage     |-> Undefined,
            status               |-> "pending",
            isOwn                |-> viewerAddress = rawCapsule.creator,
            allowDecrypt         |-> rawCapsule.isUnlocked,
            pendingManualDecrypt |-> FALSE,
            handles              |-> [i \in 1 .. Len(encryptedMessage) |->
                                         Hex(encryptedMessage[i], TRUE)] ]
    IN  [capsule EXCEPT !.status = computeStatus(capsule)]

\* ---- filtered.sort((a, b) => a.unlockTime - b.unlockTime), which is stable
RECURSIVE SortByUnlockTime(_)
SortByUnlockTime(list) ==
    IF list = <<>> THEN <<>>
    ELSE LET rest  == SortByUnlockTime(SubSeq(list, 1, Len(list) - 1))
             last  == list[Len(list)]
             k     == Cardinality({ i \in 1 .. Len(rest) :
                                      rest[i].unlockTime <= last.unlockTime })
         IN  SubSeq(rest, 1, k) \o << last >> \o SubSeq(rest, k + 1, Len(rest))

\* ---- loadStatistics (l.517-541)
loadStatistics(total, expired) ==
    [ totalCapsules   |-> total,
      expiredCapsules |-> expired,
      activeCapsules  |-> IF total > expired THEN total - expired ELSE 0 ]

\* ---- what one refreshCapsules call reads from the chain (l.629-633):
\* the answers of getUserCapsules, getTotalCapsules, getExpiredCapsulesCount
\* and, per id, getTimeCapsule and getEncryptedMessage, with the time of
\* the read.  then names what the caller does when the refresh is over.
\* openCapsule goes on with requestDecryptCapsule of the render it was
\* clicked in (l.944): the values that callback closed over
NoOpen == [capsuleId |-> 0, isDecrypting |-> FALSE, capsules |-> <<>>, allCapsules |-> <<>>]

Closure(render, capsuleId) ==
    [ capsuleId |-> capsuleId, isDecrypting |-> render.isDecrypting,
      capsules |-> render.capsules, allCapsules |-> render.allCapsules ]

Reads(then) ==
    [ dateNow  |-> now,
      own      |-> getUserCapsules(Account),
      total    |-> getTotalCapsules,
      expired  |-> getExpiredCapsulesCount,
      raw      |-> [id \in 1 .. getTotalCapsules |-> getTimeCapsule(id)],
      message  |-> [id \in 1 .. getTotalCapsules |-> timeCapsules[id].encryptedMessage],
      then     |-> then ]

fetchCapsule(reads, id) ==
    normalizeCapsule(id, reads.raw[id], reads.message[id], Account, reads.dateNow)

\* ---- fetchOwnCapsules (l.570-590) and fetchAllCapsules (l.592-615)
fetchOwnCapsules(reads) ==
    SortByUnlockTime([i \in 1 .. Len(reads.own) |-> fetchCapsule(reads, reads.own[i])])

fetchAllCapsules(reads) ==
    SortByUnlockTime([id \in 1 .. reads.total |-> fetchCapsule(reads, id)])

\* ---- window.localStorage: per capsule id the value under publicKey and
\* the value under accountKey (getDecryptedStorageKeys, l.356-372)
EmptySlot == [publicKey |-> Undefined, accountKey |-> Undefined]

\* persistDecryptedMessage (l.374-396) on the storage
persistDecryptedMessage(storage, capsuleId, message) ==
    IF Truthy(message)
    THEN [storage EXCEPT ![capsuleId] = [publicKey |-> message, accountKey |-> message]]
    ELSE [storage EXCEPT ![capsuleId] = EmptySlot]

\* variant: a locked record leaves the stored plaintext where it is
ForgetLockedNothing(storage, list) == storage

\* the storage after restoreStoredDecryptedMessage ran over a list
RECURSIVE ForgetLocked(_, _)
ForgetLocked(storage, list) ==
    IF list = <<>> THEN storage
    ELSE ForgetLocked(IF ~Head(list).allowDecrypt
                      THEN persistDecryptedMessage(storage, Head(list).id, Undefined)
                      ELSE storage,
                      Tail(list))

\* restoreStoredDecryptedMessage (l.398-419): the capsule it returns
restoreStoredDecryptedMessage(storage, capsule) ==
    IF ~capsule.allowDecrypt THEN capsule
    ELSE LET storedAccount == storage[capsule.id].accountKey
             stored == IF storedAccount.kind = "string" THEN storedAccount
                       ELSE storage[capsule.id].publicKey
         IN  IF Truthy(stored) THEN [capsule EXCEPT !.decryptedMessage = stored]
             ELSE capsule

\* ---- getCapsuleById (l.456-462) of a render
NoCapsule == [id |-> 0]

getCapsuleById(render, capsuleId) ==
    LET combined == render.capsules \o render.allCapsules
        hits     == { i \in 1 .. Len(combined) : combined[i].id = capsuleId }
    IN  IF hits = {} THEN NoCapsule
        ELSE combined[CHOOSE i \in hits : \A j \in hits : i <= j]

\* ---- updateCapsulePartial (l.451-454): both lists, by functional update
updateCapsulePartial(state, capsuleId, partial(_)) ==
    [state EXCEPT
        !.capsules    = [i \in 1 .. Len(@) |->
                            IF @[i].id = capsuleId THEN partial(@[i]) ELSE @[i]],
        !.allCapsules = [i \in 1 .. Len(@) |->
                            IF @[i].id = capsuleId THEN partial(@[i]) ELSE @[i]]]

\* ---- decryptRequestsKey (l.328-334): the requests in a fixed order, the
\* empty string for none; the handles of a key tell it apart from any other
decryptRequestsKey(decryptRequests) == Range(decryptRequests)

\* ---- what happened inside the step just taken: the requestDecryptCapsule
\* calls with their answers, the decrypt() calls, the outcomes handled
Requested(state, capsuleId, by, scheduled, outstanding) ==
    [ op |-> "request", capsuleId |-> capsuleId, by |-> by,
      scheduled |-> scheduled, outstanding |-> outstanding,
      again |-> capsuleId \in state.automatic,
      retry |-> capsuleId \in state.failedIds,
      decrypted |-> capsuleId \in state.decrypted ]

DecryptCalled(capsuleId) ==
    [ op |-> "decrypt", capsuleId |-> capsuleId, by |-> "effect",
      scheduled |-> TRUE, outstanding |-> FALSE, again |-> FALSE,
      retry |-> FALSE, decrypted |-> FALSE ]

\* a request for the record with these handles is queued or under way
Outstanding(state, capsuleId, handles) ==
    \/ state.activeDecryptCapsuleId = capsuleId /\ state.decryptRequests # <<>>
    \/ state.isDecrypting /\ handles # <<>> /\ Range(state.batch) = Range(handles)

\* ---- requestDecryptCapsule (l.709-760) of the render it was made in,
\* acting on the state as it is now; contractAddress is always there
Refuse(state, capsuleId, by, outstanding, errorMessage) ==
    [state EXCEPT
        !.errorMessage = IF errorMessage = "" THEN @ ELSE errorMessage,
        !.log = Append(@, Requested(state, capsuleId, by, FALSE, outstanding))]

requestDecryptCapsule(render, state, capsuleId, skipLockCheck, by) ==
    LET capsule     == getCapsuleById(render, capsuleId)
        found       == capsule.id # 0
        outstanding == Outstanding(state, capsuleId,
                                   IF found THEN capsule.handles ELSE <<>>)
    IN  IF render.isDecrypting THEN Refuse(state, capsuleId, by, outstanding, "")
        ELSE IF ~found
            THEN Refuse(state, capsuleId, by, outstanding, "Capsule not found.")
        ELSE IF ~capsule.allowDecrypt /\ ~skipLockCheck
            THEN Refuse(state, capsuleId, by, outstanding, "Capsule is still locked on-chain.")
        ELSE IF Truthy(capsule.decryptedMessage)
            THEN Refuse(state, capsuleId, by, outstanding, "")
        ELSE IF capsule.pendingManualDecrypt
            THEN Refuse(state, capsuleId, by, outstanding, "")
        ELSE IF Len(capsule.handles) = 0
            THEN Refuse(state, capsuleId, by, outstanding,
                        "No encrypted message chunks available to decrypt.")
        ELSE LET queued ==
                   [state EXCEPT
                       !.decryptRequests = capsule.handles,
                       !.handledDecryptKey = {},
                       !.activeDecryptCapsuleId = capsuleId,
                       !.automatic = IF by = "auto" THEN @ \cup {capsuleId} ELSE @,
                       !.log = Append(@, Requested(state, capsuleId, by, TRUE,
                                                   outstanding))]
             IN  updateCapsulePartial(queued, capsuleId,
                     LAMBDA c : [c EXCEPT !.pendingManualDecrypt = TRUE])

\* whether the latest requestDecryptCapsule call returned true
Scheduled(state) == state.log[Len(state.log)].scheduled

\* ---- the auto-decrypt effect (l.762-793)
\* one turn of the loop of evaluateCapsules
EvaluateCapsule(render, state, capsule) ==
    IF ~capsule.isOwn THEN state
    ELSE IF ~capsule.allowDecrypt
        THEN [state EXCEPT !.autoDecryptRequested = @ \ {capsule.id}]
    ELSE IF Truthy(capsule.decryptedMessage) \/ capsule.pendingManualDecrypt THEN state
    ELSE IF capsule.id \in state.autoDecryptRequested THEN state
    ELSE LET marked == [state EXCEPT !.autoDecryptRequested = @ \cup {capsule.id}]
             asked  == requestDecryptCapsule(render, marked, capsule.id, TRUE, "auto")
         IN  IF Scheduled(asked) THEN asked
             ELSE [asked EXCEPT !.autoDecryptRequested = @ \ {capsule.id}]

RECURSIVE evaluateCapsules(_, _, _)
evaluateCapsules(render, state, list) ==
    IF list = <<>> THEN state
    ELSE evaluateCapsules(render, EvaluateCapsule(render, state, Head(list)), Tail(list))

AutoDecryptEffect(render, state) ==
    LET activeIds == { render.capsules[i].id : i \in 1 .. Len(render.capsules) }
                     \cup { render.allCapsules[i].id : i \in 1 .. Len(render.allCapsules) }
        own       == evaluateCapsules(render, state, render.capsules)
        all       == evaluateCapsules(render, own, render.allCapsules)
    IN  [all EXCEPT !.autoDecryptRequested = @ \cap activeIds]

\* ---- decrypt() of useFHEDecrypt, called with the requests of the render:
\* one batch at a time, which runs to its end
decrypt(render, state) ==
    IF state.isDecrypting \/ render.decryptRequests = <<>> THEN state
    ELSE [state EXCEPT
             !.isDecrypting = TRUE,
             !.batch = render.decryptRequests,
             !.log = Append(@, DecryptCalled(render.activeDecryptCapsuleId))]

\* ---- the effect that starts the decryption (l.955-965)
DecryptTriggerEffect(render, state) ==
    IF decryptRequestsKey(render.decryptRequests) = {}
        THEN [state EXCEPT !.handledDecryptKey = {}]
    ELSE IF ~render.canDecrypt THEN state
    ELSE IF render.handledDecryptKey = decryptRequestsKey(render.decryptRequests) THEN state
    ELSE IF render.isDecrypting THEN state
    ELSE decrypt(render,
                 [state EXCEPT !.handledDecryptKey =
                                   decryptRequestsKey(render.decryptRequests)])

\* ---- the decryptError effect (l.967-977)
DecryptErrorEffect(render, state) ==
    IF render.decryptError = "" THEN state
    ELSE LET shown == [state EXCEPT !.errorMessage = render.decryptError]
             freed ==
               IF render.activeDecryptCapsuleId = 0 THEN shown
               ELSE updateCapsulePartial(
                        [shown EXCEPT
                            !.autoDecryptRequested = @ \ {render.activeDecryptCapsuleId},
                            !.automatic = @ \ {render.activeDecryptCapsuleId},
                            !.failedIds = @ \cup {render.activeDecryptCapsuleId},
                            !.activeDecryptCapsuleId = 0],
                        render.activeDecryptCapsuleId,
                        LAMBDA c : [c EXCEPT !.pendingManualDecrypt = FALSE])
         IN  [freed EXCEPT !.decryptRequests = <<>>, !.handledDecryptKey = {}]

\* ---- the decrypt results effect (l.996-1035)
DecryptResultsEffect(render, state) ==
    LET id      == render.activeDecryptCapsuleId
        capsule == getCapsuleById(render, id)
        decoded == decodeMessageFromResults(capsule.handles,
                                            normalizedDecryptResults(render.results))
        cleared == [state EXCEPT
                       !.autoDecryptRequested = @ \ {id},
                       !.automatic = @ \ {id},
                       !.activeDecryptCapsuleId = 0,
                       !.decryptRequests = <<>>,
                       !.handledDecryptKey = {}]
    IN  IF render.results = <<>> THEN state
        ELSE IF id = 0 THEN state
        ELSE IF capsule.id = 0 THEN
            updateCapsulePartial(
                [cleared EXCEPT !.storage = persistDecryptedMessage(@, id, Undefined)],
                id, LAMBDA c : [c EXCEPT !.pendingManualDecrypt = FALSE])
        ELSE IF Truthy(decoded) THEN
            updateCapsulePartial(
                [cleared EXCEPT !.storage = persistDecryptedMessage(@, id, decoded),
                                !.decrypted = @ \cup {id}],
                id, LAMBDA c : [c EXCEPT !.decryptedMessage = decoded,
                                         !.pendingManualDecrypt = FALSE])
        ELSE
            updateCapsulePartial(
                [cleared EXCEPT !.storage = persistDecryptedMessage(@, id, Undefined),
                                !.failedIds = @ \cup {id},
                                !.errorMessage = "Failed to decrypt capsule message."],
                id, LAMBDA c : [c EXCEPT !.pendingManualDecrypt = FALSE])

\* ---- one render and the effects it runs, in the order they are declared;
\* every effect sees the values of that render, its updates pile up on the
\* state.  The outcome of a decrypt batch is handed over once.
Effects(render) ==
    LET start  == [render EXCEPT !.log = <<>>]
        auto   == AutoDecryptEffect(render, start)
        called == DecryptTriggerEffect(render, auto)
        failed == DecryptErrorEffect(render, called)
        read   == DecryptResultsEffect(render, failed)
        after  == [read EXCEPT !.results = <<>>, !.decryptError = ""]
        same   == [after EXCEPT !.log = <<>>]
                     = [start EXCEPT !.results = <<>>, !.decryptError = ""]
    IN  [after EXCEPT !.dirty = ~same]

\* ---- the state machine of the client
\* the state after the first render: nothing loaded, the mount effect
\* (l.951-953) has called refreshCapsules
StartRefresh(state, reads) ==
    [state EXCEPT !.errorMessage = "", !.isLoading = TRUE,
                  !.refreshes = @ \cup reads]

Mounted ==
    [ statistics             |-> <<>>,
      capsules               |-> <<>>,
      allCapsules            |-> <<>>,
      decryptRequests        |-> <<>>,
      handledDecryptKey      |-> {},
      activeDecryptCapsuleId |-> 0,
      isLoading              |-> FALSE,
      errorMessage           |-> "",
      autoDecryptRequested   |-> {},
      canDecrypt             |-> FALSE,
      isDecrypting           |-> FALSE,
      batch                  |-> <<>>,
      results                |-> <<>>,
      decryptError           |-> "",
      storage                |-> [id \in 1 .. MaxCapsules |-> EmptySlot],
      refreshes              |-> {},
      decrypted              |-> {},
      automatic              |-> {},
      failedIds              |-> {},
      dirty                  |-> FALSE,
      log                    |-> <<>> ]

ClientInit ==
    /\ now = 1
    /\ nextCapsuleId = 1
    /\ timeCapsules = [i \in CapsuleIds |-> EmptyCapsule]
    /\ userCapsules = [u \in Addresses |-> <<>>]
    /\ acl = {}
    /\ granted = [i \in CapsuleIds |-> {}]
    /\ eventCount = [i \in CapsuleIds |-> NoEventCount]
    /\ events = <<>>
    /\ lastCall = NoCall
    /\ codec = "unused"
    /\ hook = StartRefresh(Mounted, {Reads(NoOpen)})
    /\ stringStorage = "unused"

\* an event handler or a promise runs once the render before it is done
Idle == ~hook.dirty

Handled(state) == [state EXCEPT !.dirty = TRUE]

Fresh == [hook EXCEPT !.log = <<>>]

\* the transaction was mined: its logs reach the useWatchContractEvent
\* callbacks (l.650-688), each of which calls refreshCapsules; a refused
\* one shows its reason (l.895-897)
Watched(state, reads) ==
    IF lastCall'.ok THEN Handled(StartRefresh(state, reads))
    ELSE state

Submitted(state, reads) ==
    IF lastCall'.ok THEN Handled(StartRefresh(state, reads))
    ELSE Handled([state EXCEPT !.errorMessage = lastCall'.reason])

Room == Cardinality(hook'.refreshes) <= MaxInFlight

\* createCapsule (l.907-916) with a message and an unlock time that pass
\* the checks of executeWrite (l.817-824): the transaction, then
\* refreshCapsules
ViewerCreates ==
    /\ Idle
    /\ \E unlockTime \in {now + 1} :
          /\ ~(unlockTime <= now)
          /\ createTimeCapsule(Account, ClientUpload(Account),
                               Len(ClientUpload(Account)),
                               UploadTime(Account), unlockTime)
          /\ hook' = Submitted(Fresh, {Reads(NoOpen)'})
          /\ Room
    /\ UNCHANGED <<codec, stringStorage>>

\* the buttons of the "mine" tab show when no refresh is loading
\* (part_000 l.290-340)
Shown(capsuleId, status) ==
    /\ ~hook.isLoading
    /\ \E i \in 1 .. Len(hook.capsules) :
          hook.capsules[i].id = capsuleId /\ hook.capsules[i].status = status

\* cancelCapsule (l.918-927)
ViewerCancels ==
    /\ Idle
    /\ \E capsuleId \in 1 .. MaxCapsules :
          /\ Shown(capsuleId, "active")
          /\ cancelTimeCapsule(Account, capsuleId)
          /\ hook' = Submitted(Fresh, {Reads(NoOpen)'})
          /\ Room
    /\ UNCHANGED <<codec, stringStorage>>

\* the update openCapsule makes before it refreshes (l.935-941)
Optimistic(capsule) ==
    [capsule EXCEPT !.isUnlocked = TRUE, !.isActive = FALSE, !.allowDecrypt = TRUE,
                    !.status = "unlocked", !.pendingManualDecrypt = TRUE]

\* openCapsule (l.929-949) up to its refreshCapsules call; what follows
\* the refresh travels with it
ViewerOpens ==
    /\ Idle
    /\ \E capsuleId \in 1 .. MaxCapsules :
          /\ Shown(capsuleId, "expired")
          /\ openTimeCapsule(Account, capsuleId)
          /\ hook' = IF lastCall'.ok
                     THEN Handled(StartRefresh(
                              updateCapsulePartial(Fresh, capsuleId, Optimistic),
                              {Reads(NoOpen)',
                               [Reads(NoOpen)' EXCEPT !.then = Closure(hook, capsuleId)]}))
                     ELSE Handled([Fresh EXCEPT !.errorMessage = lastCall'.reason])
          /\ Room
    /\ UNCHANGED <<codec, stringStorage>>

\* another account sends its own transactions; the client sees their logs
OtherUser == "bob"

OtherCreates ==
    /\ Idle
    /\ \E unlockTime \in {now + 1} :
          createTimeCapsule(OtherUser, ClientUpload(OtherUser),
                            Len(ClientUpload(OtherUser)),
                            UploadTime(OtherUser), unlockTime)
    /\ lastCall'.ok
    /\ hook' = Watched(Fresh, {Reads(NoOpen)'})
    /\ Room
    /\ UNCHANGED <<codec, stringStorage>>

OtherCancels ==
    /\ Idle
    /\ \E capsuleId \in 1 .. MaxCapsules : cancelTimeCapsule(OtherUser, capsuleId)
    /\ lastCall'.ok
    /\ hook' = Watched(Fresh, {Reads(NoOpen)'})
    /\ Room
    /\ UNCHANGED <<codec, stringStorage>>

OtherOpens ==
    /\ Idle
    /\ \E capsuleId \in 1 .. MaxCapsules : openTimeCapsule(OtherUser, capsuleId)
    /\ lastCall'.ok
    /\ hook' = Watched(Fresh, {Reads(NoOpen)'})
    /\ Room
    /\ UNCHANGED <<codec, stringStorage>>

OtherGrants ==
    /\ Idle
    /\ \E capsuleId \in 1 .. MaxCapsules :
          /\ Account \notin granted[capsuleId]
          /\ grantDecryptionAccess(OtherUser, capsuleId, Account)
    /\ lastCall'.ok
    /\ hook' = Watched(Fresh, {Reads(NoOpen)'})
    /\ Room
    /\ UNCHANGED <<codec, stringStorage>>

\* time passes
ClockTicks ==
    /\ Idle
    /\ Tick
    /\ hook' = Fresh
    /\ UNCHANGED <<codec, stringStorage>>

\* the reads of a refreshCapsules call come back (l.635-647); the caller
\* that awaited it goes on
Refreshed ==
    /\ Idle
    /\ \E reads \in hook.refreshes :
          LET own     == fetchOwnCapsules(reads)
              all     == fetchAllCapsules(reads)
              storage == ForgetLocked(ForgetLocked(hook.storage, own), all)
              shown   ==
                [Fresh EXCEPT
                    !.capsules    = [i \in 1 .. Len(own) |->
                                        restoreStoredDecryptedMessage(storage, own[i])],
                    !.allCapsules = [i \in 1 .. Len(all) |->
                                        restoreStoredDecryptedMessage(storage, all[i])],
                    !.statistics  = << loadStatistics(reads.total, reads.expired) >>,
                    !.storage     = storage,
                    !.isLoading   = FALSE,
                    !.refreshes   = @ \ {reads}]
          IN  hook' = Handled(
                  IF reads.then.capsuleId = 0 THEN shown
                  ELSE requestDecryptCapsule(reads.then, shown,
                                             reads.then.capsuleId, TRUE, "open"))
    /\ UNCHANGED <<contract, codec, stringStorage>>

\* the Decrypt button of a card (part_000 l.296-315, l.357-369)
DecryptClicked ==
    /\ Idle
    /\ ~hook.isLoading
    /\ hook.canDecrypt /\ ~hook.isDecrypting
    /\ \E capsule \in Range(hook.capsules)
                        \cup { c \in Range(hook.allCapsules) : ~c.isOwn } :
              /\ capsule.allowDecrypt /\ ~Truthy(capsule.decryptedMessage)
              /\ ~capsule.pendingManualDecrypt
              /\ hook' = Handled(requestDecryptCapsule(hook, Fresh, capsule.id,
                                                       FALSE, "manual"))
    /\ UNCHANGED <<contract, codec, stringStorage>>

\* the relayer is initialised: canDecrypt of useFHEDecrypt turns true
RelayerReady ==
    /\ Idle
    /\ ~hook.canDecrypt
    /\ hook' = Handled([Fresh EXCEPT !.canDecrypt = TRUE])
    /\ UNCHANGED <<contract, codec, stringStorage>>

\* the scalar behind a chunk handle of the store
PlaintextOf(handle) ==
    LET c == CHOOSE c \in 1 .. MaxCapsules :
                 handle.name \in Range(timeCapsules[c].encryptedMessage)
        i == CHOOSE i \in 1 .. Len(timeCapsules[c].encryptedMessage) :
                 timeCapsules[c].encryptedMessage[i] = handle.name
    IN  encodeMessageToChunks(MessageOf(timeCapsules[c].creator))[i]

\* the batch may be decrypted for the account
Authorized(batch) ==
    \A i \in 1 .. Len(batch) : << batch[i].name, Account >> \in acl

\* what a batch can end in: its scalars, scalars that are no payload, an error
Outcomes == {"results", "malformed", "error"}

\* the decrypt batch ends: useFHEDecrypt hands over results or error
DecryptEnds ==
    /\ Idle
    /\ hook.isDecrypting
    /\ \E outcome \in Outcomes :
          /\ outcome = "results" => Authorized(hook.batch)
          /\ hook' = Handled([Fresh EXCEPT
                 !.isDecrypting = FALSE,
                 !.batch        = <<>>,
                 !.results      =
                     IF outcome = "results"
                     THEN [i \in 1 .. Len(hook.batch) |->
                              << hook.batch[i], PlaintextOf(hook.batch[i]) >>]
                     ELSE IF outcome = "malformed"
                     THEN [i \in 1 .. Len(hook.batch) |->
                              << hook.batch[i], BigInt(<< 128 >> \o Zeros(31)) >>]
                     ELSE <<>>,
                 !.decryptError = IF outcome = "error" THEN "Decryption failed" ELSE ""])
    /\ UNCHANGED <<contract, codec, stringStorage>>

\* React renders and runs the effects
Rendered ==
    /\ hook.dirty
    /\ hook' = Effects(hook)
    /\ UNCHANGED <<contract, codec, stringStorage>>

ClientNext ==
    \/ ViewerCreates
    \/ ViewerCancels
    \/ ViewerOpens
    \/ OtherCreates
    \/ OtherCancels
    \/ OtherOpens
    \/ OtherGrants
    \/ ClockTicks
    \/ Refreshed
    \/ DecryptClicked
    \/ RelayerReady
    \/ DecryptEnds
    \/ Rendered

ClientSpec == ClientInit /\ [][ClientNext]_vars

\* ======================================================================
\* Properties
\* ======================================================================
Created(id)   == id \in 1 .. (nextCapsuleId - 1)
Active(id)    == timeCapsules[id].isActive /\ ~timeCapsules[id].isUnlocked
Cancelled(id) == Created(id) /\ ~timeCapsules[id].isActive /\ ~timeCapsules[id].isUnlocked
Unlocked(id)  == timeCapsules[id].isUnlocked

\* a step that executes a call (every action but Tick), and its receipt
CallStep(op)  == now' = now /\ lastCall'.op = op
Succeeded(op) == lastCall.op = op /\ lastCall.ok
Reverted(op, reason) == lastCall.op = op /\ ~lastCall.ok /\ lastCall.reason = reason

\* C1: in every reachable state no capsule has isActive and isUnlocked both
\* true.
C1_FlagsExclusive ==
    \A id \in CapsuleIds : ~(timeCapsules[id].isActive /\ timeCapsules[id].isUnlocked)

\* reached: a capsule has just been opened while another one is still active
C1_Witness ==
    /\ Succeeded("open")
    /\ Unlocked(lastCall.capsuleId)
    /\ \E other \in CapsuleIds : Active(other)

\* C2: once isUnlocked is true it stays true, and from the step that sets it
\* isActive is false in every later state, whatever is called afterwards.
C2_UnlockedIsPermanent ==
    [][ \A id \in CapsuleIds :
          /\ timeCapsules[id].isUnlocked => timeCapsules'[id].isUnlocked
          /\ timeCapsules'[id].isUnlocked => ~timeCapsules'[id].isActive ]_vars

\* reached: capsule 1 is unlocked with two grantees, a second capsule has been
\* created, and a cancel of capsule 1 has just been refused
C2_Witness ==
    /\ Unlocked(1) /\ ~timeCapsules[1].isActive
    /\ Created(2)
    /\ Cardinality(granted[1]) = 2
    /\ lastCall.capsuleId = 1
    /\ Reverted("cancel", "Capsule is not active")

\* C3: a capsule's grant set is non-empty only if the capsule is Unlocked, a
\* capsule becomes Unlocked only by a successful Open at now >= unlockTime,
\* so while now < unlockTime nobody holds a grant on the capsule.
C3_Inv ==
    \A id \in CapsuleIds :
        /\ granted[id] # {} => Unlocked(id)
        /\ Unlocked(id) => now >= timeCapsules[id].unlockTime
        /\ (Created(id) /\ now < timeCapsules[id].unlockTime) => granted[id] = {}

C3_Step ==
    \A id \in CapsuleIds :
        (~Unlocked(id) /\ Unlocked(id)') =>
            /\ CallStep("open") /\ lastCall'.ok /\ lastCall'.capsuleId = id
            /\ now >= timeCapsules[id].unlockTime

C3_NoGrantBeforeUnlock == [](C3_Inv) /\ [][C3_Step]_vars

\* reached: the creator's attempt to share a still-locked capsule was refused
C3_Witness ==
    /\ Reverted("grant", "Capsule not unlocked")
    /\ Created(lastCall.capsuleId)
    /\ lastCall.sender = timeCapsules[lastCall.capsuleId].creator
    /\ now < timeCapsules[lastCall.capsuleId].unlockTime
    /\ granted[lastCall.capsuleId] = {}

\* C4: creator, unlockTime and the message chunk handles (their number and
\* values) of a created capsule are the same in every later state; the id is
\* the key the record is stored under and the key of its owner-list entry.
C4_Step ==
    \A id \in CapsuleIds :
        Created(id) =>
            /\ Created(id)'
            /\ timeCapsules'[id].creator = timeCapsules[id].creator
            /\ timeCapsules'[id].unlockTime = timeCapsules[id].unlockTime
            /\ timeCapsules'[id].encryptedMessage = timeCapsules[id].encryptedMessage
            /\ \A u \in Addresses :
                 (id \in Range(userCapsules[u])) <=> (id \in Range(userCapsules'[u]))

C4_ImmutableFields == [][C4_Step]_vars

\* reached: capsule 1 was cancelled, capsule 2 was created, opened and has
\* just been shared
C4_Witness ==
    /\ Cancelled(1)
    /\ Len(timeCapsules[1].encryptedMessage) = MaxChunks
    /\ Unlocked(2)
    /\ Succeeded("grant")

\* C5: createTimeCapsule reverts whenever the chunk array is empty, or its
\* length differs from the number of proofs, or unlockTime <= block.timestamp
\* (equality included); it does not revert when all three guards hold.
C5_CreateValidation ==
    \A sender \in Users, n \in 0 .. MaxChunks, p \in 0 .. MaxChunks, t \in Times :
        LET bad == n = 0 \/ n # p \/ t <= now
            reverts  == ENABLED ( /\ createTimeCapsule(sender, Upload(sender, n), p,
                                                       UploadTime(sender), t)
                                  /\ ~lastCall'.ok )
            succeeds == ENABLED ( /\ createTimeCapsule(sender, Upload(sender, n), p,
                                                       UploadTime(sender), t)
                                  /\ lastCall'.ok )
        IN  /\ bad => (reverts /\ ~succeeds)
            /\ (~bad /\ nextCapsuleId <= MaxCapsules) => (succeeds /\ ~reverts)

\* reached: a create whose unlock time was not in the future was refused
\* at a time when an earlier create had gone through
C5_Witness ==
    /\ Reverted("create", "Unlock time must be in the future")
    /\ nextCapsuleId = 2
    /\ now = timeCapsules[1].unlockTime

\* C6: right after a successful create by c with n chunks and unlock time t,
\* getTimeCapsule(new id) = (c, t, true, false, n), the capsule is not counted
\* by getExpiredCapsulesCount and nobody has been granted access to it.
C6_Step ==
    \A c \in Users, n \in 0 .. MaxChunks, t \in Times :
        ( /\ CallStep("create") /\ lastCall'.ok
          /\ createTimeCapsule(c, Upload(c, n), n, UploadTime(c), t) ) =>
            \E id \in CapsuleIds :
                /\ id = lastCall'.capsuleId
                /\ getTimeCapsule(id)' =
                     [ creator |-> c, unlockTime |-> t, isActive |-> TRUE,
                       isUnlocked |-> FALSE, messageLength |-> n ]
                /\ ~(now' >= timeCapsules'[id].unlockTime)
                /\ getExpiredCapsulesCount' = getExpiredCapsulesCount
                /\ granted'[id] = {}

C6_CreatedRecord == [][C6_Step]_vars

\* reached: a second capsule with the longest message has just been created
\* while the first one is expired and unopened
C6_Witness ==
    /\ Succeeded("create")
    /\ lastCall.capsuleId = 2
    /\ getTimeCapsule(2).messageLength = MaxChunks
    /\ getExpiredCapsulesCount = 1

\* C7: ids are handed out 1, 2, 3, ... in order of successful creation, each
\* to exactly one capsule; a reverted create consumes none; getTotalCapsules
\* is the number of successful creates and never decreases.
RECURSIVE SumCreated(_)
SumCreated(ids) ==
    IF ids = {} THEN 0
    ELSE LET i == CHOOSE i \in ids : TRUE
         IN  eventCount[i].CapsuleCreated + SumCreated(ids \ {i})

C7_Inv ==
    /\ getTotalCapsules = SumCreated(CapsuleIds)
    /\ \A id \in CapsuleIds :
         /\ eventCount[id].CapsuleCreated = (IF Created(id) THEN 1 ELSE 0)
         /\ Created(id) <=> timeCapsules[id].creator # ZeroAddress
         /\ Cardinality({ <<u, k>> \in Addresses \X (1 .. MaxCapsules) :
                            k <= Len(userCapsules[u]) /\ userCapsules[u][k] = id })
              = (IF Created(id) THEN 1 ELSE 0)

C7_Step ==
    /\ getTotalCapsules' >= getTotalCapsules
    /\ CallStep("create") =>
         IF lastCall'.ok
         THEN /\ lastCall'.capsuleId = getTotalCapsules + 1
              /\ getTotalCapsules' = getTotalCapsules + 1
         ELSE getTotalCapsules' = getTotalCapsules
    /\ ~CallStep("create") => getTotalCapsules' = getTotalCapsules

C7_SequentialIds == [](C7_Inv) /\ [][C7_Step]_vars

\* reached: two creates went through, one was refused, and a capsule has
\* since been cancelled and another opened
C7_Witness ==
    /\ getTotalCapsules = 2
    /\ Cancelled(1) /\ Unlocked(2)
    /\ Reverted("create", "Message proof mismatch")

\* C8: a capsule goes from Active to Cancelled only through cancelTimeCapsule
\* called by its creator: a cancel by anyone else reverts, and a cancel by the
\* creator on an Active capsule sets isActive = false, leaves isUnlocked =
\* false and emits CapsuleCancelled.
C8_Step ==
    \A id \in CapsuleIds :
        /\ (Active(id) /\ Cancelled(id)') =>
              /\ CallStep("cancel") /\ lastCall'.ok
              /\ lastCall'.capsuleId = id
              /\ lastCall'.sender = timeCapsules[id].creator
        /\ (CallStep("cancel") /\ lastCall'.capsuleId = id) =>
              /\ lastCall'.sender # timeCapsules[id].creator => ~lastCall'.ok
              /\ (lastCall'.sender = timeCapsules[id].creator /\ Active(id)) =>
                    /\ lastCall'.ok
                    /\ ~timeCapsules'[id].isActive
                    /\ ~timeCapsules'[id].isUnlocked
                    /\ events' = << CapsuleCancelled(id, timeCapsules[id].creator) >>
              /\ ~lastCall'.ok => (store' = store /\ events' = <<>>)

C8_CancelByCreatorOnly == [][C8_Step]_vars

\* reached: the creator has just cancelled an active capsule
C8_Witness ==
    /\ Succeeded("cancel")
    /\ Cancelled(lastCall.capsuleId)
    /\ lastCall.sender = timeCapsules[lastCall.capsuleId].creator
    /\ events = << CapsuleCancelled(lastCall.capsuleId, lastCall.sender) >>

\* reached: somebody else's cancel of an active capsule was refused
C8_WitnessRefused ==
    /\ Reverted("cancel", "Only creator can cancel")
    /\ Active(lastCall.capsuleId)

\* C9: a cancel of an already Cancelled capsule reverts and an open of an
\* already Unlocked capsule reverts, so each capsule sees at most one
\* successful cancel and at most one successful open.
C9_Step ==
    \A id \in CapsuleIds :
        /\ (CallStep("cancel") /\ lastCall'.capsuleId = id /\ Cancelled(id)) => ~lastCall'.ok
        /\ (CallStep("open") /\ lastCall'.capsuleId = id /\ Unlocked(id)) => ~lastCall'.ok
        /\ (CallStep("cancel") /\ lastCall'.capsuleId = id /\ lastCall'.ok) =>
              eventCount'[id].CapsuleCancelled = eventCount[id].CapsuleCancelled + 1
        /\ (CallStep("open") /\ lastCall'.capsuleId = id /\ lastCall'.ok) =>
              eventCount'[id].CapsuleUnlocked = eventCount[id].CapsuleUnlocked + 1

C9_Inv ==
    \A id \in CapsuleIds :
        /\ eventCount[id].CapsuleCancelled <= 1
        /\ eventCount[id].CapsuleUnlocked <= 1

C9_OneShot == [](C9_Inv) /\ [][C9_Step]_vars

\* reached: the creator's second cancel of a capsule was refused
C9_Witness ==
    /\ Reverted("cancel", "Capsule is not active")
    /\ Cancelled(lastCall.capsuleId)
    /\ lastCall.sender = timeCapsules[lastCall.capsuleId].creator
    /\ eventCount[lastCall.capsuleId].CapsuleCancelled = 1

\* reached: a second open of an unlocked capsule was refused
C9_WitnessOpen ==
    /\ Reverted("open", "Capsule is not active")
    /\ Unlocked(lastCall.capsuleId)
    /\ eventCount[lastCall.capsuleId].CapsuleUnlocked = 1

\* C10: openTimeCapsule on an Active capsule reverts whenever
\* block.timestamp < unlockTime and goes through whenever
\* block.timestamp >= unlockTime, the instant unlockTime itself included.
C10_Step ==
    \A id \in CapsuleIds :
        (CallStep("open") /\ lastCall'.capsuleId = id /\ Active(id)) =>
            /\ lastCall'.ok <=> now >= timeCapsules[id].unlockTime
            /\ lastCall'.ok => Unlocked(id)'
            /\ ~lastCall'.ok => (~Unlocked(id)' /\ Active(id)')

C10_OpenAtUnlockTime == [][C10_Step]_vars

\* reached: a capsule was opened at exactly its unlock time
C10_Witness ==
    /\ Succeeded("open")
    /\ Unlocked(lastCall.capsuleId)
    /\ now = timeCapsules[lastCall.capsuleId].unlockTime

\* reached: an open one tick before the unlock time was refused
C10_WitnessEarly ==
    /\ Reverted("open", "Unlock time has not arrived")
    /\ Active(lastCall.capsuleId)
    /\ now + 1 = timeCapsules[lastCall.capsuleId].unlockTime

\* C11: openTimeCapsule is permissionless: any caller opens an Active capsule
\* once block.timestamp >= unlockTime; afterwards isActive = false,
\* isUnlocked = true and the grant set is exactly {creator} when the caller is
\* the creator and exactly {creator, caller} otherwise.
C11_Step ==
    \A id \in CapsuleIds :
        (CallStep("open") /\ lastCall'.capsuleId = id) =>
            /\ (Active(id) /\ now >= timeCapsules[id].unlockTime) => lastCall'.ok
            /\ lastCall'.ok =>
                 /\ ~timeCapsules'[id].isActive
                 /\ timeCapsules'[id].isUnlocked
                 /\ granted'[id] =
                      IF lastCall'.sender = timeCapsules[id].creator
                      THEN {timeCapsules[id].creator}
                      ELSE {timeCapsules[id].creator, lastCall'.sender}

C11_PermissionlessOpen == [][C11_Step]_vars

\* reached: somebody other than the creator has just opened a capsule and
\* both hold a grant
C11_Witness ==
    /\ Succeeded("open")
    /\ lastCall.sender # timeCapsules[lastCall.capsuleId].creator
    /\ Cardinality(granted[lastCall.capsuleId]) = 2
    /\ Unlocked(lastCall.capsuleId) /\ ~timeCapsules[lastCall.capsuleId].isActive

\* C12: grantDecryptionAccess reverts when the capsule is not Unlocked, when
\* the caller is not the creator (the opener who already holds a grant
\* included) and when the recipient is address(0); it goes through exactly
\* for the creator on an Unlocked capsule with a non-zero recipient.
C12_Step ==
    \A id \in CapsuleIds :
        (CallStep("grant") /\ lastCall'.capsuleId = id) =>
            /\ lastCall'.ok <=>
                 /\ Unlocked(id)
                 /\ lastCall'.sender = timeCapsules[id].creator
                 /\ lastCall'.recipient # ZeroAddress
            /\ (lastCall'.sender \in granted[id]
                  /\ lastCall'.sender # timeCapsules[id].creator) => ~lastCall'.ok

C12_GrantGuards == [][C12_Step]_vars

\* reached: the opener, who holds a grant but is not the creator, was refused
C12_Witness ==
    /\ Reverted("grant", "Only creator can share")
    /\ Unlocked(lastCall.capsuleId)
    /\ lastCall.sender \in granted[lastCall.capsuleId]
    /\ lastCall.recipient # ZeroAddress

\* a grant call by the creator of an Unlocked capsule to a recipient who
\* already holds the grant
RepeatedGrant(id) ==
    /\ CallStep("grant") /\ lastCall'.capsuleId = id
    /\ Unlocked(id)
    /\ lastCall'.sender = timeCapsules[id].creator
    /\ lastCall'.recipient \in granted[id]

\* C13 as stated: a repeated grantDecryptionAccess succeeds and is a no-op
\* for readers and for event consumers alike: the store keeps its value and
\* the call puts nothing new in the log.
C13_RepeatedGrantStep ==
    \A id \in CapsuleIds :
        RepeatedGrant(id) =>
            /\ lastCall'.ok
            /\ store' = store
            /\ events' = <<>>

C13_Original == [][C13_RepeatedGrantStep]_vars

\* C13: a repeated grantDecryptionAccess by the creator (to the creator, to the
\* opener or to an earlier recipient) succeeds and leaves the stored state
\* as it was: records, flags, id lists, recipients, permissions and every
\* view; it does emit one more CapsuleEncryptionGranted with the same
\* contents as the first.
C13_Step ==
    \A id \in CapsuleIds :
        RepeatedGrant(id) =>
            /\ lastCall'.ok
            /\ store' = store
            /\ getTimeCapsule(id)' = getTimeCapsule(id)
            /\ getExpiredCapsulesCount' = getExpiredCapsulesCount
            /\ getTotalCapsules' = getTotalCapsules
            /\ events' = << CapsuleEncryptionGranted(id, lastCall'.recipient,
                                                     timeCapsules[id]) >>

C13_IdempotentGrant == [][C13_Step]_vars

\* reached: the creator has just granted to themselves, a grant the unlock
\* had already made
C13_Witness ==
    /\ Succeeded("grant")
    /\ lastCall.recipient = timeCapsules[lastCall.capsuleId].creator
    /\ lastCall.sender = lastCall.recipient
    /\ Len(events) = 1 /\ events[1].name = "CapsuleEncryptionGranted"

\* C14: recipients are only ever added: on every step each capsule's
\* recipients, and the handle permissions, include the earlier ones.
C14_Step ==
    /\ \A id \in CapsuleIds : granted[id] \subseteq granted'[id]
    /\ acl \subseteq acl'

C14_AdditiveGrants == [][C14_Step]_vars

\* reached: a capsule with two recipients whose creator went on to cancel
\* another capsule and to grant again
C14_Witness ==
    /\ \E id \in CapsuleIds : Cardinality(granted[id]) = 2
    /\ \E other \in CapsuleIds : Cancelled(other)
    /\ Succeeded("grant")

\* the handles of a record, in the order CapsuleEncryptionGranted lists them
FieldHandles(c) ==
    << c.encryptedCreator, c.encryptedUnlockTime,
       c.encryptedIsActive, c.encryptedIsUnlocked >> \o c.encryptedMessage

\* r may decrypt every field of the record c
FullyAllowed(c, r) ==
    \A i \in 1 .. Len(FieldHandles(c)) : <<FieldHandles(c)[i], r>> \in acl

\* C15: every grant, explicit or made by the unlock, covers the whole record:
\* each recipient of an Unlocked capsule is allowed on its current creator,
\* unlockTime, isActive and isUnlocked handles and on every message chunk
\* handle, and the unlock grants on the flag handles it has just written.
C15_Inv ==
    \A id \in CapsuleIds :
        Unlocked(id) => \A r \in granted[id] : FullyAllowed(timeCapsules[id], r)

C15_Step ==
    \A id \in CapsuleIds :
        ( /\ now' = now
          /\ lastCall'.op \in {"open", "grant"}
          /\ lastCall'.capsuleId = id
          /\ lastCall'.ok ) =>
            /\ timeCapsules'[id].encryptedIsActive = AsEbool(FALSE)
            /\ timeCapsules'[id].encryptedIsUnlocked = AsEbool(TRUE)
            /\ Len(timeCapsules'[id].encryptedMessage) >= 1
            /\ \A i \in 1 .. Len(events') :
                 events'[i].name = "CapsuleEncryptionGranted" =>
                    /\ events'[i].handles = FieldHandles(timeCapsules'[id])
                    /\ events'[i].account \in granted'[id]
                    /\ \A k \in 1 .. Len(events'[i].handles) :
                         <<events'[i].handles[k], events'[i].account>> \in acl'

C15_FullGrant == [](C15_Inv) /\ [][C15_Step]_vars

\* reached: an unlock by somebody other than the creator of a two-chunk
\* capsule, both of whom may now decrypt all six handles
C15_Witness ==
    /\ Succeeded("open")
    /\ Len(timeCapsules[lastCall.capsuleId].encryptedMessage) = 2
    /\ lastCall.sender # timeCapsules[lastCall.capsuleId].creator
    /\ \A r \in {lastCall.sender, timeCapsules[lastCall.capsuleId].creator} :
          FullyAllowed(timeCapsules[lastCall.capsuleId], r)

\* C16: a reverted createTimeCapsule, cancelTimeCapsule, openTimeCapsule or
\* grantDecryptionAccess leaves every storage variable and permission as it
\* was and logs no event; each revert carries its require message.
C16_Step ==
    ( /\ lastCall'.op \in {"create", "cancel", "open", "grant"}
      /\ ~lastCall'.ok ) =>
        /\ nextCapsuleId' = nextCapsuleId
        /\ timeCapsules' = timeCapsules
        /\ userCapsules' = userCapsules
        /\ acl' = acl
        /\ granted' = granted
        /\ eventCount' = eventCount
        /\ now' = now
        /\ events' = <<>>
        /\ lastCall'.reason # ""

C16_RevertIsAtomic == [][C16_Step]_vars

\* reached: a create was refused while one capsule is unlocked and the other
\* id is still free
C16_Witness ==
    /\ lastCall.op = "create" /\ ~lastCall.ok
    /\ nextCapsuleId = 2
    /\ Unlocked(1)
    /\ events = <<>>

\* C17: no call is silently ignored: each cancelTimeCapsule, openTimeCapsule
\* or grantDecryptionAccess either makes its transition (Active -> Cancelled,
\* Active -> Unlocked, Unlocked -> Unlocked with the recipient granted) or
\* reverts with a message. A Cancelled capsule stays Cancelled and refuses
\* open and grant, an Unlocked capsule refuses cancel, and all three revert on
\* an id that was never created.
C17_Step ==
    \A id \in CapsuleIds :
        /\ Cancelled(id) => Cancelled(id)'
        /\ ( /\ now' = now
             /\ lastCall'.op \in {"cancel", "open", "grant"}
             /\ lastCall'.capsuleId = id ) =>
               /\ lastCall'.ok =>
                    /\ lastCall'.op = "cancel" => (Active(id) /\ Cancelled(id)')
                    /\ lastCall'.op = "open"   => (Active(id) /\ Unlocked(id)')
                    /\ lastCall'.op = "grant"  =>
                         /\ Unlocked(id) /\ Unlocked(id)'
                         /\ lastCall'.recipient \in granted'[id]
               /\ ~lastCall'.ok => (lastCall'.reason # "" /\ timeCapsules' = timeCapsules)
               /\ Cancelled(id) => ~lastCall'.ok
               /\ (Unlocked(id) /\ lastCall'.op = "cancel") => ~lastCall'.ok
               /\ ~Created(id) => ~lastCall'.ok

C17_NoSilentTransition == [][C17_Step]_vars

\* reached: an open of a cancelled capsule, past its unlock time, was refused
C17_Witness ==
    /\ Reverted("open", "Capsule is not active")
    /\ Cancelled(lastCall.capsuleId)
    /\ now >= timeCapsules[lastCall.capsuleId].unlockTime

\* reached: a cancel of an id that was never created was refused
C17_WitnessNoSuchId ==
    /\ lastCall.op = "cancel" /\ ~lastCall.ok
    /\ ~Created(lastCall.capsuleId)
    /\ nextCapsuleId > 1

\* the capsules in storage that are due and neither opened nor cancelled
Due(t) == { id \in CapsuleIds : Active(id) /\ t >= timeCapsules[id].unlockTime }

\* C18: getExpiredCapsulesCount is a function of the current storage and
\* block.timestamp: the number of capsules with isActive, not isUnlocked and
\* block.timestamp >= unlockTime. It rises by one for each Active capsule
\* whose unlock time the clock reaches, falls by one when such a capsule is
\* opened or cancelled, and no other call moves it.
C18_Inv == getExpiredCapsulesCount = Cardinality(Due(now))

C18_Step ==
    /\ now' # now =>
         getExpiredCapsulesCount' = getExpiredCapsulesCount
             + Cardinality({ id \in CapsuleIds :
                               Active(id) /\ timeCapsules[id].unlockTime = now' })
    /\ \A id \in CapsuleIds :
         ( /\ now' = now
           /\ lastCall'.capsuleId = id /\ lastCall'.ok
           /\ lastCall'.op \in {"open", "cancel"} ) =>
             getExpiredCapsulesCount' =
                 IF now >= timeCapsules[id].unlockTime
                 THEN getExpiredCapsulesCount - 1
                 ELSE getExpiredCapsulesCount
    /\ ( now' = now /\ ~(lastCall'.ok /\ lastCall'.op \in {"open", "cancel"}) ) =>
         getExpiredCapsulesCount' = getExpiredCapsulesCount

C18_ExpiredCount == [](C18_Inv) /\ [][C18_Step]_vars

\* reached: two capsules were due; one has just been cancelled and the
\* count is back to one
C18_Witness ==
    /\ Succeeded("cancel")
    /\ now >= timeCapsules[lastCall.capsuleId].unlockTime
    /\ getExpiredCapsulesCount = 1
    /\ nextCapsuleId = 3

\* s is the start of t
IsPrefix(s, t) == Len(s) <= Len(t) /\ \A i \in 1 .. Len(s) : s[i] = t[i]

\* C19: getUserCapsules(u) is exactly the ids u created, in creation order,
\* each once and in nobody else's list, and it never shrinks;
\* getActiveCapsulesByUser(u) is exactly its subsequence of ids whose capsule
\* has isActive = true, so an id leaves it on cancel and on open.
C19_Inv ==
    \A u \in Addresses :
        /\ \A i, j \in 1 .. Len(getUserCapsules(u)) :
              i < j => getUserCapsules(u)[i] < getUserCapsules(u)[j]
        /\ Range(getUserCapsules(u))
              = { id \in CapsuleIds : Created(id) /\ timeCapsules[id].creator = u }
        /\ \A v \in Addresses \ {u} :
              Range(getUserCapsules(u)) \cap Range(getUserCapsules(v)) = {}
        /\ getActiveCapsulesByUser(u)
              = SelectSeq(getUserCapsules(u), LAMBDA id : timeCapsules[id].isActive)

C19_Step ==
    /\ \A u \in Addresses : IsPrefix(getUserCapsules(u), getUserCapsules(u)')
    /\ (CallStep("create") /\ lastCall'.ok) =>
          \E u \in Users :
             /\ u = lastCall'.sender
             /\ getUserCapsules(u)'
                  = Append(getUserCapsules(u), lastCall'.capsuleId)
             /\ getActiveCapsulesByUser(u)'
                  = Append(getActiveCapsulesByUser(u), lastCall'.capsuleId)
    /\ \A id \in CapsuleIds :
         ( /\ now' = now
           /\ lastCall'.op \in {"cancel", "open"}
           /\ lastCall'.capsuleId = id /\ lastCall'.ok ) =>
             \E u \in Users :
                /\ u = timeCapsules[id].creator
                /\ id \in Range(getActiveCapsulesByUser(u))
                /\ id \notin Range(getActiveCapsulesByUser(u)')
                /\ getUserCapsules(u)' = getUserCapsules(u)

C19_OwnerLists == [](C19_Inv) /\ [][C19_Step]_vars

\* reached: a user owns ids 1 and 2, the first has been cancelled and only
\* the second is still listed as active
C19_Witness ==
    \E u \in Users :
        /\ getUserCapsules(u) = <<1, 2>>
        /\ Cancelled(1)
        /\ getActiveCapsulesByUser(u) = <<2>>
        /\ \A v \in Users \ {u} : getUserCapsules(v) = <<>>

\* reached: each user owns one capsule
C19_WitnessTwoOwners ==
    \A u \in Users : Len(getUserCapsules(u)) = 1

\* e is a CapsuleEncryptionGranted for capsule id and recipient r carrying
\* the handles of the record c
IsGranted(e, id, r, c) ==
    /\ e.name = "CapsuleEncryptionGranted"
    /\ e.capsuleId = id
    /\ e.account = r
    /\ e.handles = FieldHandles(c)

\* C20: each successful call logs its events and nothing else: create one
\* CapsuleCreated(id, creator, unlockTime); cancel one CapsuleCancelled(id,
\* creator); grant one CapsuleEncryptionGranted(id, recipient, all handles);
\* open one CapsuleEncryptionGranted for the creator, then one for the caller
\* when the caller is not the creator, then one CapsuleUnlocked(id, creator),
\* which names the creator whoever opened.
C20_Step ==
    \A id \in CapsuleIds :
        ( now' = now /\ lastCall'.ok /\ lastCall'.capsuleId = id ) =>
            /\ lastCall'.op = "create" =>
                 /\ Len(events') = 1
                 /\ events'[1].name = "CapsuleCreated"
                 /\ events'[1].capsuleId = id
                 /\ events'[1].account = lastCall'.sender
                 /\ events'[1].account = timeCapsules'[id].creator
                 /\ events'[1].unlockTime = timeCapsules'[id].unlockTime
            /\ lastCall'.op = "cancel" =>
                 /\ Len(events') = 1
                 /\ events'[1].name = "CapsuleCancelled"
                 /\ events'[1].capsuleId = id
                 /\ events'[1].account = timeCapsules[id].creator
            /\ lastCall'.op = "grant" =>
                 /\ Len(events') = 1
                 /\ IsGranted(events'[1], id, lastCall'.recipient, timeCapsules'[id])
            /\ lastCall'.op = "open" =>
                 /\ Len(events') =
                      IF lastCall'.sender = timeCapsules[id].creator THEN 2 ELSE 3
                 /\ IsGranted(events'[1], id, timeCapsules[id].creator,
                              timeCapsules'[id])
                 /\ Len(events') = 3 =>
                      IsGranted(events'[2], id, lastCall'.sender, timeCapsules'[id])
                 /\ events'[Len(events')].name = "CapsuleUnlocked"
                 /\ events'[Len(events')].capsuleId = id
                 /\ events'[Len(events')].account = timeCapsules[id].creator

C20_EventsPerCall == [][C20_Step]_vars

\* reached: an unlock by somebody other than the creator logged three
\* events, the last of which names the creator
C20_Witness ==
    /\ Succeeded("open")
    /\ Len(events) = 3
    /\ events[2].account = lastCall.sender
    /\ events[3].name = "CapsuleUnlocked"
    /\ events[3].account = timeCapsules[lastCall.capsuleId].creator
    /\ events[3].account # lastCall.sender

\* ---------------------------------------------------------------- codec
\* the text the bytes of a message read back as
ReadBack(message) == textDecoderDecode(textEncoderEncode(message))

\* the chunks as 32-byte blocks, one after the other
Blocks(chunks) == Concat([i \in 1 .. Len(chunks) |-> Low32(chunks[i].digits)])

\* C21: round trip: for every message, the empty one included, encoding it
\* into chunks and decoding the decrypted scalars of those chunks gives the
\* message back, and the client takes it as the record's plaintext.
C21_RoundTrip ==
    (codec.pc = "decoded" /\ codec.delivery \in {"inOrder", "reordered"}) =>
        /\ codec.decoded = Decoded(codec.message)
        /\ codec.accepted

\* C22: encodeMessageToChunks of a message of L bytes returns
\* ceil((4 + L) / 32) chunks and never none: the first four bytes of the
\* blocks are L big-endian, the next L bytes are the message, every byte
\* after that is zero; the empty message gives one chunk.
C22_EncodeLayout ==
    codec.pc # "typed" =>
        LET bytes  == textEncoderEncode(codec.message)
            L      == Len(bytes)
            blocks == Blocks(codec.chunks)
        IN  /\ Len(codec.chunks) = Ceil(4 + L, BYTES_PER_CHUNK)
            /\ Len(codec.chunks) >= 1
            /\ \A i \in 1 .. Len(codec.chunks) :
                  /\ codec.chunks[i].type = "bigint"
                  /\ Len(codec.chunks[i].digits) <= BYTES_PER_CHUNK
                  /\ codec.chunks[i].digits # <<>> => codec.chunks[i].digits[1] # 0
            /\ Len(blocks) = BYTES_PER_CHUNK * Len(codec.chunks)
            /\ blocks[1] * 16777216 + blocks[2] * 65536 + blocks[3] * 256 + blocks[4] = L
            /\ SubSeq(blocks, 5, 4 + L) = bytes
            /\ \A k \in (4 + L + 1) .. Len(blocks) : blocks[k] = 0
            /\ Len(blocks) - (4 + L) < BYTES_PER_CHUNK
            /\ codec.message = <<>> => Len(codec.chunks) = 1

\* reached: the empty message encoded into its one chunk
C22_Witness ==
    /\ codec.pc = "encoded"
    /\ codec.message = <<>>
    /\ Len(codec.chunks) = 1

\* reached: a message of 61 bytes encoded into three chunks, the last one
\* filled up with zeros
C22_WitnessThreeChunks ==
    /\ codec.pc = "encoded"
    /\ Len(textEncoderEncode(codec.message)) = 61
    /\ Len(codec.chunks) = 3

\* some result is a byte string that is not BYTES_PER_CHUNK bytes long
WrongSizeValue ==
    \E j \in 1 .. Len(codec.entries) :
        /\ codec.entries[j][2].type = "string"
        /\ Len(codec.entries[j][2].digits) # BYTES_PER_CHUNK

C23_WitnessFewer ==
    /\ codec.pc = "decoded"
    /\ codec.delivery = "fewerBlocks"
    /\ codec.decoded = Undecoded

\* C24: the chunks are put together by their position in the record: in
\* whatever order the results come and whatever the case of their keys, the
\* decoded message is the one in-order results give; only results under the
\* record's own handles are used, and a handle without a result makes the
\* decoding fail.
C24_ByOriginalIndex ==
    codec.pc = "decoded" =>
        /\ codec.delivery \in {"inOrder", "reordered"} =>
              /\ codec.decoded = Decoded(ReadBack(codec.message))
              /\ \A j \in 1 .. Len(codec.handles) :
                    \E e \in 1 .. Len(codec.entries) :
                       /\ toLowerCase(codec.entries[e][1]) = toLowerCase(codec.handles[j])
                       /\ Low32(codec.entries[e][2].digits)
                            = SubSeq(Blocks(codec.chunks),
                                     (j - 1) * BYTES_PER_CHUNK + 1, j * BYTES_PER_CHUNK)
        /\ codec.delivery = "missing" =>
              /\ \E j \in 1 .. Len(codec.handles) :
                    \A e \in 1 .. Len(codec.entries) :
                       toLowerCase(codec.entries[e][1]) # toLowerCase(codec.handles[j])
              /\ codec.decoded = Undecoded

\* reached: three chunks whose results came back reversed, under upper-case
\* keys and behind another record's result, and were decoded
C24_Witness ==
    /\ codec.pc = "decoded"
    /\ codec.delivery = "reordered"
    /\ Len(codec.handles) = 3
    /\ Len(codec.entries) = 4
    /\ codec.entries[2][1] = Hex(3, TRUE)
    /\ codec.entries[4][1] = Hex(1, TRUE)
    /\ codec.decoded = Decoded(codec.message)

\* --------------------------------------------------------------- client
\* the records of both projections
Cards(state) == Range(state.capsules) \cup Range(state.allCapsules)

\* the label the flags of a record call for
StatusLabel(isUnlocked, isActive, isExpired) ==
    IF isUnlocked THEN "unlocked"
    ELSE IF ~isActive THEN "cancelled"
    ELSE IF isExpired THEN "expired"
    ELSE "active"

\* a refreshCapsules call has just set the projections from its reads
RefreshApplied(reads) ==
    /\ reads \in hook.refreshes
    /\ hook'.refreshes = hook.refreshes \ {reads}

\* C25 (state): every record of both projections carries the label its own
\* flags call for, which is never "pending".
C25_Inv ==
    \A c \in Cards(hook) :
        /\ c.status = StatusLabel(c.isUnlocked, c.isActive, c.isExpired)
        /\ c.status \in {"unlocked", "cancelled", "expired", "active"}

\* C25 (step): a refresh sets every record of both projections from what it
\* fetched: the flags as read, isExpired from the time of the read, the
\* label from those, whatever the record showed before, an optimistic
\* update included.
C25_Step ==
    \A reads \in hook.refreshes :
        RefreshApplied(reads) =>
            /\ { c.id : c \in Range(hook'.allCapsules) } = 1 .. reads.total
            /\ { c.id : c \in Range(hook'.capsules) } = Range(reads.own)
            /\ \A c \in Cards(hook') :
                  /\ c.isUnlocked = reads.raw[c.id].isUnlocked
                  /\ c.isActive = reads.raw[c.id].isActive
                  /\ c.isExpired = (reads.dateNow >= reads.raw[c.id].unlockTime)
                  /\ c.status = StatusLabel(reads.raw[c.id].isUnlocked,
                                            reads.raw[c.id].isActive,
                                            reads.dateNow >= reads.raw[c.id].unlockTime)

\* C25: the status label of every record in both projections is a function
\* of the fetched flags and the time: unlocked, else cancelled, else
\* expired, else active; every refresh computes it anew and it is never
\* "pending" nor kept from an earlier refresh or an optimistic update.
C25_StatusIsDerived == [](C25_Inv) /\ [][C25_Step]_vars

\* reached: every refresh is over after the viewer opened a record, which
\* the optimistic update had shown as unlocked and the refreshes show as
\* unlocked from what they read, next to a cancelled record whose unlock
\* time has passed
C25_Witness ==
    /\ hook.refreshes = {}
    /\ lastCall.op = "open" /\ lastCall.ok /\ lastCall.sender = Account
    /\ \E c \in Range(hook.capsules) :
          c.id = lastCall.capsuleId /\ c.status = "unlocked" /\ c.isExpired
    /\ \E c \in Range(hook.capsules) : c.status = "cancelled" /\ c.isExpired

\* C26: a record has at most one decrypt request outstanding: a request
\* for a record whose request is queued or under way changes nothing,
\* whoever makes it (the Decrypt button, the automatic effect, the end of
\* openCapsule), so it never brings about a second decrypt call for the
\* record: no batch is under way for a record that the batch before it has
\* already decrypted.
C26_OneOutstanding ==
    \A c \in Cards(hook) :
        Truthy(c.decryptedMessage)
            => ~(hook.isDecrypting /\ Range(hook.batch) = Range(c.handles))

\* a decrypt attempt for the record ends in failure in the render at hand
FailedAttempt(capsuleId) ==
    /\ hook.dirty
    /\ hook.activeDecryptCapsuleId = capsuleId
    /\ \/ hook.decryptError # ""
       \/ /\ hook.results # <<>>
          /\ getCapsuleById(hook, capsuleId).id = capsuleId
          /\ ~Truthy(decodeMessageFromResults(
                         getCapsuleById(hook, capsuleId).handles,
                         normalizedDecryptResults(hook.results)))

\* C27: when a decrypt attempt of a record ends in a decode failure or an
\* error of the capability, the record is no longer pending, the failure
\* shows as the error message, nothing is cached or shown as its plaintext,
\* the request queue is empty, and a request for any other record that is
\* shown, may be decrypted and is not yet decrypted is accepted.
C27_Step ==
    \A capsuleId \in 1 .. MaxCapsules :
        FailedAttempt(capsuleId) =>
            /\ \A c \in Cards(hook') :
                  c.id = capsuleId =>
                     ~c.pendingManualDecrypt /\ ~Truthy(c.decryptedMessage)
            /\ hook'.errorMessage
                 \in {"Decryption failed", "Failed to decrypt capsule message."}
            /\ hook'.storage[capsuleId] = EmptySlot
            /\ hook'.decryptRequests = <<>>
            /\ hook'.activeDecryptCapsuleId = 0
            /\ \A c \in Cards(hook') :
                  ( /\ c.id # capsuleId
                    /\ c.allowDecrypt
                    /\ ~Truthy(c.decryptedMessage)
                    /\ Len(c.handles) > 0 )
                  => Scheduled(requestDecryptCapsule(hook', hook', c.id,
                                                     FALSE, "manual"))

C27_FailureIsClean == [][C27_Step]_vars

\* the plaintext of a record of the store
PlaintextOfCapsule(capsuleId) == Decoded(MessageOf(timeCapsules[capsuleId].creator))

\* C28: once a decrypt batch of a record has succeeded its plaintext is
\* kept under both storage keys, every projection shows it, after any later
\* refresh too, and no further decrypt request is made for the record.
C28_PlaintextKept ==
    \A capsuleId \in hook.decrypted :
        /\ hook.storage[capsuleId].publicKey = PlaintextOfCapsule(capsuleId)
        /\ hook.storage[capsuleId].accountKey = PlaintextOfCapsule(capsuleId)
        /\ \A c \in Cards(hook) :
              c.id = capsuleId => c.decryptedMessage = PlaintextOfCapsule(capsuleId)
        /\ \A k \in 1 .. Len(hook.log) :
              hook.log[k].capsuleId = capsuleId => ~hook.log[k].scheduled

\* the record is shown and may be decrypted
Eligible(state, capsuleId) ==
    \E c \in Cards(state) : c.id = capsuleId /\ c.allowDecrypt

\* C29 (step): the marker of a record goes only when the record has left
\* the eligible set or when the attempt for it has ended.
C29_Step ==
    \A capsuleId \in hook.autoDecryptRequested \ hook'.autoDecryptRequested :
        \/ ~Eligible(hook, capsuleId)
        \/ /\ hook.activeDecryptCapsuleId = capsuleId
           /\ hook.results # <<>> \/ hook.decryptError # ""

\* C29 (state): no automatic request is accepted for a record whose
\* earlier automatic request is outstanding.
C29_Inv ==
    \A k \in 1 .. Len(hook.log) :
        (hook.log[k].op = "request" /\ hook.log[k].by = "auto"
            /\ hook.log[k].outstanding /\ hook.log[k].again)
        => ~hook.log[k].scheduled

\* C29: automatic attempts are made once per record: the marker of a record
\* is cleared only when it leaves the eligible set or its request ends, and
\* however many refreshes go by while its request is outstanding no second
\* automatic request is made for it.
C29_AutoOnce == [](C29_Inv) /\ [][C29_Step]_vars

\* C30: every lifecycle event starts a full refresh, and once every refresh
\* is over the projections and the statistics are those of the store: a
\* refresh that read an older state never replaces a newer one.
C30_LatestSnapshot ==
    (hook.refreshes = {} /\ ~hook.dirty) =>
        /\ { c.id : c \in Range(hook.allCapsules) } = 1 .. getTotalCapsules
        /\ { c.id : c \in Range(hook.capsules) } = Range(getUserCapsules(Account))
        /\ \A c \in Cards(hook) :
              /\ c.isActive = timeCapsules[c.id].isActive
              /\ c.isUnlocked = timeCapsules[c.id].isUnlocked
        /\ hook.statistics # <<>>
        /\ hook.statistics[1].totalCapsules = getTotalCapsules

\* ---- contract, continued

\* C33 (state): the encrypted mirrors of every capsule hold its plain
\* isActive, isUnlocked and creator.
C33_Inv ==
    \A id \in CapsuleIds :
        Created(id) =>
            /\ timeCapsules[id].encryptedIsActive = AsEbool(timeCapsules[id].isActive)
            /\ timeCapsules[id].encryptedIsUnlocked = AsEbool(timeCapsules[id].isUnlocked)
            /\ timeCapsules[id].encryptedCreator = AsEaddress(timeCapsules[id].creator)

\* C33 (step): whether a Cancel, an Open or a Grant goes through is decided
\* by the plain fields, the caller, the recipient and the time.
C33_Step ==
    \A id \in CapsuleIds :
        /\ (CallStep("cancel") /\ lastCall'.capsuleId = id) =>
              (lastCall'.ok <=> /\ timeCapsules[id].creator = lastCall'.sender
                                /\ timeCapsules[id].isActive
                                /\ ~timeCapsules[id].isUnlocked)
        /\ (CallStep("open") /\ lastCall'.capsuleId = id) =>
              (lastCall'.ok <=> /\ timeCapsules[id].isActive
                                /\ ~timeCapsules[id].isUnlocked
                                /\ now >= timeCapsules[id].unlockTime)
        /\ (CallStep("grant") /\ lastCall'.capsuleId = id) =>
              (lastCall'.ok <=> /\ lastCall'.recipient # ZeroAddress
                                /\ timeCapsules[id].isUnlocked
                                /\ timeCapsules[id].creator = lastCall'.sender)

\* C33: the encrypted mirrors are in step with the plain fields at every
\* mutation: in every reachable state encryptedIsActive holds isActive,
\* encryptedIsUnlocked holds isUnlocked and encryptedCreator holds creator,
\* and the guards of Cancel, Open and Grant decide on the plain fields.
C33_MirrorsInSync == [](C33_Inv) /\ [][C33_Step]_vars

\* reached: a capsule has just been cancelled, its mirror says inactive,
\* while another capsule is unlocked with both of its mirrors turned
C33_Witness ==
    /\ Succeeded("cancel")
    /\ timeCapsules[lastCall.capsuleId].encryptedIsActive = AsEbool(FALSE)
    /\ \E other \in CapsuleIds :
          /\ Unlocked(other)
          /\ timeCapsules[other].encryptedIsUnlocked = AsEbool(TRUE)
          /\ timeCapsules[other].encryptedIsActive = AsEbool(FALSE)

\* C36 (step): on an Active capsule whose unlock time has passed the
\* creator's Cancel and anybody's Open both go through; on a cancelled
\* capsule Open fails and on an unlocked one Cancel fails; a cancelled
\* capsule stays cancelled and an unlocked one stays unlocked.
C36_Step ==
    \A id \in CapsuleIds :
        /\ ( /\ Active(id) /\ now >= timeCapsules[id].unlockTime
              /\ CallStep("cancel") /\ lastCall'.capsuleId = id
              /\ lastCall'.sender = timeCapsules[id].creator )
            => (lastCall'.ok /\ Cancelled(id)')
        /\ ( /\ Active(id) /\ now >= timeCapsules[id].unlockTime
              /\ CallStep("open") /\ lastCall'.capsuleId = id )
            => (lastCall'.ok /\ Unlocked(id)')
        /\ (Cancelled(id) /\ CallStep("open") /\ lastCall'.capsuleId = id)
            => ~lastCall'.ok
        /\ (Unlocked(id) /\ CallStep("cancel") /\ lastCall'.capsuleId = id)
            => ~lastCall'.ok
        /\ Cancelled(id) => Cancelled(id)'
        /\ Unlocked(id) => Unlocked(id)'

\* C36 (state): no capsule has logged both a cancellation and an unlock.
C36_Inv ==
    \A id \in CapsuleIds :
        ~(eventCount[id].CapsuleCancelled > 0 /\ eventCount[id].CapsuleUnlocked > 0)

\* C36: once the unlock time of an Active capsule has passed, Cancel by the
\* creator and Open by anyone are both possible (Cancel has no time guard);
\* the one applied first makes the other fail, so a capsule ends Cancelled
\* or Unlocked, never both and never one after the other.
C36_CancelOrOpen == [](C36_Inv) /\ [][C36_Step]_vars

\* reached: the creator cancelled a capsule whose unlock time had passed
C36_Witness ==
    /\ Succeeded("cancel")
    /\ lastCall.sender = timeCapsules[lastCall.capsuleId].creator
    /\ Cancelled(lastCall.capsuleId)
    /\ now >= timeCapsules[lastCall.capsuleId].unlockTime

\* reached: an open of a capsule cancelled after its unlock time was refused
C36_WitnessOpenAfterCancel ==
    /\ Reverted("open", "Capsule is not active")
    /\ Cancelled(lastCall.capsuleId)
    /\ now >= timeCapsules[lastCall.capsuleId].unlockTime

\* C37 (state): nobody holds a grant on a cancelled capsule.
C37_Inv ==
    \A id \in CapsuleIds : Cancelled(id) => granted[id] = {}

\* C37 (step): a cancelled capsule stays cancelled without grants, and every
\* Open of it and every Grant on it, the creator's included, is refused.
C37_Step ==
    \A id \in CapsuleIds :
        Cancelled(id) =>
            /\ Cancelled(id)'
            /\ granted'[id] = {}
            /\ ( /\ now' = now
                  /\ lastCall'.op \in {"open", "grant"}
                  /\ lastCall'.capsuleId = id ) => ~lastCall'.ok

\* C37: a cancelled capsule has an empty grant set in every later state:
\* whatever is called after the Cancel, nobody, the creator included, gets
\* a grant on any of its fields.
C37_CancelledNeverGranted == [](C37_Inv) /\ [][C37_Step]_vars

\* reached: after the unlock time the creator tried to share their
\* cancelled capsule with the other user and was refused
C37_Witness ==
    /\ Reverted("grant", "Capsule not unlocked")
    /\ Cancelled(lastCall.capsuleId)
    /\ lastCall.sender = timeCapsules[lastCall.capsuleId].creator
    /\ lastCall.recipient \in Users \ {lastCall.sender}
    /\ now >= timeCapsules[lastCall.capsuleId].unlockTime
    /\ granted[lastCall.capsuleId] = {}

\* ---- client, continued

\* C31: a failed decrypt attempt is final for that attempt and is not tried
\* again by the client on its own: once an attempt for a record has ended
\* in an error or in a payload that does not decode, no automatic request
\* for that record is accepted; only the Decrypt button starts a new one.
C31_NoAutoRetry ==
    \A k \in 1 .. Len(hook.log) :
        (hook.log[k].op = "request" /\ hook.log[k].by = "auto" /\ hook.log[k].retry)
        => ~hook.log[k].scheduled

\* C32: the client asks for decryption of granted fields only: a decrypt
\* request, from the Decrypt button, the automatic effect or the end of
\* openCapsule, is accepted for a record only if the account is in the
\* record's grant set and the record has not been decrypted yet.
C32_OnlyGranted ==
    \A k \in 1 .. Len(hook.log) :
        (hook.log[k].op = "request" /\ hook.log[k].scheduled)
        => /\ Account \in granted[hook.log[k].capsuleId]
           /\ ~hook.log[k].decrypted

\* C34 (state): a record that is not Unlocked in the store shows no
\* plaintext and has none stored.
C34_Inv ==
    \A id \in 1 .. MaxCapsules :
        ~timeCapsules[id].isUnlocked =>
            /\ hook.storage[id] = EmptySlot
            /\ \A c \in Cards(hook) : c.id = id => ~Truthy(c.decryptedMessage)

\* C34 (step): a refresh removes both stored entries of every record it
\* fetched as not Unlocked and leaves the decryptedMessage of that record
\* unset.
C34_Step ==
    \A reads \in hook.refreshes :
        RefreshApplied(reads) =>
            \A c \in Cards(hook') :
                ~reads.raw[c.id].isUnlocked =>
                    /\ hook'.storage[c.id].publicKey = Undefined
                    /\ hook'.storage[c.id].accountKey = Undefined
                    /\ c.decryptedMessage = Undefined

Waiting(reads) ==
    { id \in 1 .. reads.total :
        /\ reads.raw[id].isActive
        /\ ~reads.raw[id].isUnlocked
        /\ reads.dateNow < reads.raw[id].unlockTime }

\* C35: the "Active" statistic is the number of capsules waiting to
\* unlock: whatever was created, cancelled and opened and whatever time has
\* passed, a refresh sets statistics.activeCapsules to the number of
\* capsules that are active and not yet expired; cancelled and unlocked
\* capsules do not count.
C35_Step ==
    \A reads \in hook.refreshes :
        RefreshApplied(reads) =>
            /\ hook'.statistics # <<>>
            /\ hook'.statistics[1].activeCapsules = Cardinality(Waiting(reads))

C35_ActiveStatistic == [][C35_Step]_vars

\* the ids of the records shown as pending
Pending(state) == { c.id : c \in { d \in Cards(state) : d.pendingManualDecrypt } }

\* C38: a record whose pending flag is set is the record of the one
\* outstanding decrypt batch: activeDecryptCapsuleId is its id and the
\* queued requests are its handles; so at most one record is pending at a
\* time, also when several own records turn Unlocked in one refresh.
C38_PendingIsActive ==
    /\ \A c \in Cards(hook) :
          c.pendingManualDecrypt =>
              /\ hook.activeDecryptCapsuleId = c.id
              /\ hook.decryptRequests = c.handles
    /\ Cardinality(Pending(hook)) <= 1

\* nothing is left for the client to do on its own: no render is due, no
\* refresh and no decrypt batch is under way, no request is queued
Quiet ==
    /\ ~hook.dirty
    /\ hook.refreshes = {}
    /\ ~hook.isDecrypting
    /\ hook.decryptRequests = <<>>

\* C39: every decrypt batch coming back, a record whose pending flag or
\* marker was set gets both cleared in the end: when the client has nothing
\* left to do no record is pending and no marker is set; no record is left
\* pending or marked because a request for another record took the place
\* of its request.
C39_NothingLeftBehind ==
    Quiet => (Pending(hook) = {} /\ hook.autoDecryptRequested = {})

\* ------------------------------------------------- LocalStorageStringStorage
\* utils/storage/LocalStorageStringStorage.ts.  Strings are sequences of
\* characters, so that #buildKey is the concatenation the code performs.
MaxKeys  == 2        \* keys a caller passes to one storage object
MaxCalls == 4        \* getItem / setItem / removeItem calls in one run

null == "null"       \* what Storage.getItem and Map.get(..) ?? null give for
                     \* a key that is not there

\* prefixes the objects are constructed with (index.tsx l.345 passes
\* "fhevm-signature", the default is "fhevm") and the keys and values passed
StoragePrefixes == {<<"f">>, <<"s">>}
StorageNames  == {<<"k", ToString(i)>> : i \in 1 .. MaxKeys}
StorageValues == {"v", "w"}

\* #buildKey, l.18-20
buildKey(prefix, key) == prefix \o <<":">> \o key

StorageKeys == {buildKey(p, k) : p \in StoragePrefixes, k \in StorageNames}

\* constructor, l.12-16: an empty memory fallback, availability not yet probed
Constructed == [memoryFallback |-> [sk \in StorageKeys |-> null],
                isLocalStorageAvailable |-> null]

\* #hasLocalStorage, l.22-38, of the object with the given prefix: the cached
\* answer if there is one; false, not cached, without a window; otherwise the
\* outcome of the probe (a write and a removal of a test key), cached
hasLocalStorage(s, prefix, probe) ==
    LET cached == s.objects[prefix].isLocalStorageAvailable IN
    IF cached # null THEN [available |-> cached = "true", state |-> s]
    ELSE IF ~s.window THEN [available |-> FALSE, state |-> s]
    ELSE [available |-> probe,
          state |-> [s EXCEPT !.objects[prefix].isLocalStorageAvailable =
                                  IF probe THEN "true" ELSE "false"]]

\* getItem, l.40-50: localStorage's answer when it is available and the read
\* does not throw, the memory fallback's otherwise
getItem(s, prefix, key, probe, throws) ==
    LET storageKey == buildKey(prefix, key)
        has == hasLocalStorage(s, prefix, probe)
    IN  [state  |-> has.state,
         threw  |-> has.available /\ throws,
         result |-> IF has.available /\ ~throws
                    THEN has.state.localStorage[storageKey]
                    ELSE has.state.objects[prefix].memoryFallback[storageKey]]

\* setItem, l.52-63: written to localStorage and nothing else when that
\* succeeds, to the memory fallback otherwise
setItem(s, prefix, key, value, probe, throws) ==
    LET storageKey == buildKey(prefix, key)
        has == hasLocalStorage(s, prefix, probe)
    IN  IF has.available /\ ~throws
        THEN [has.state EXCEPT !.localStorage[storageKey] = value]
        ELSE [has.state EXCEPT !.objects[prefix].memoryFallback[storageKey] = value]

\* removeItem, l.65-75: removed from localStorage when that is available and
\* the removal does not throw, and from the memory fallback in every case
removeItem(s, prefix, key, probe, throws) ==
    LET storageKey == buildKey(prefix, key)
        has == hasLocalStorage(s, prefix, probe)
        removed == IF has.available /\ ~throws
                   THEN [has.state EXCEPT !.localStorage[storageKey] = null]
                   ELSE has.state
    IN  [removed EXCEPT !.objects[prefix].memoryFallback[storageKey] = null]

NoStorageCall == [op |-> "none", prefix |-> <<>>, key |-> <<>>, result |-> null,
                  threw |-> FALSE]

\* One page (window TRUE) or one server render (window FALSE) with an empty
\* localStorage and one storage object per prefix.  `written` is the map the
\* callers have written: the latest setItem value of each key, null after a
\* removeItem and before the first setItem.
StorageInit ==
    /\ now = 1
    /\ nextCapsuleId = 1
    /\ timeCapsules = [i \in CapsuleIds |-> EmptyCapsule]
    /\ userCapsules = [u \in Addresses |-> <<>>]
    /\ acl = {}
    /\ granted = [i \in CapsuleIds |-> {}]
    /\ eventCount = [i \in CapsuleIds |-> NoEventCount]
    /\ events = <<>>
    /\ lastCall = NoCall
    /\ codec = "unused"
    /\ hook = "unmounted"
    /\ \E w \in BOOLEAN :
          stringStorage =
              [ window       |-> w,
                localStorage |-> [sk \in StorageKeys |-> null],
                objects      |-> [p \in StoragePrefixes |-> Constructed],
                written      |-> [sk \in StorageKeys |-> null],
                calls        |-> 0,
                call         |-> NoStorageCall ]

\* a localStorage call may throw (quota exceeded, access denied) or not; the
\* probe is made of two such calls
GetItem ==
    \E p \in StoragePrefixes, k \in StorageNames, probe \in BOOLEAN, throws \in BOOLEAN :
        LET got == getItem(stringStorage, p, k, probe, throws) IN
        /\ stringStorage.calls < MaxCalls
        /\ stringStorage' =
               [got.state EXCEPT !.calls = @ + 1,
                                 !.call = [op |-> "getItem", prefix |-> p, key |-> k,
                                           result |-> got.result,
                                           threw |-> got.threw]]
        /\ UNCHANGED <<contract, codec, hook>>

SetItem ==
    \E p \in StoragePrefixes, k \in StorageNames, v \in StorageValues,
       probe \in BOOLEAN, throws \in BOOLEAN :
        LET set == setItem(stringStorage, p, k, v, probe, throws) IN
        /\ stringStorage.calls < MaxCalls
        /\ stringStorage' =
               [set EXCEPT !.calls = @ + 1, !.written[buildKey(p, k)] = v,
                           !.call = [op |-> "setItem", prefix |-> p, key |-> k,
                                     result |-> null, threw |-> FALSE]]
        /\ UNCHANGED <<contract, codec, hook>>

RemoveItem ==
    \E p \in StoragePrefixes, k \in StorageNames, probe \in BOOLEAN, throws \in BOOLEAN :
        LET removed == removeItem(stringStorage, p, k, probe, throws) IN
        /\ stringStorage.calls < MaxCalls
        /\ stringStorage' =
               [removed EXCEPT !.calls = @ + 1, !.written[buildKey(p, k)] = null,
                               !.call = [op |-> "removeItem", prefix |-> p, key |-> k,
                                         result |-> null, threw |-> FALSE]]
        /\ UNCHANGED <<contract, codec, hook>>

StorageNext == GetItem \/ SetItem \/ RemoveItem

StorageSpec == StorageInit /\ [][StorageNext]_vars

\* C40: a storage object behaves as one map, whatever localStorage does: a
\* getItem(k) whose own read of localStorage does not fail returns the value
\* of the latest setItem(k, v), and null when the latest call for k was
\* removeItem(k) or there was none, also when that write or removal threw.
C40_OneMap ==
    (stringStorage.call.op = "getItem" /\ ~stringStorage.call.threw) =>
        stringStorage.call.result =
            stringStorage.written[buildKey(stringStorage.call.prefix, stringStorage.call.key)]

====
